---- MODULE Spec2Model ----
(***************************************************************************)
(* Rescue / candidate lifecycle of the TrailGuard backend                  *)
(* (src/src/routes/rescue.ts, src/src/lib/notifications.ts).               *)
(*                                                                         *)
(* The store (rescue, candidate and notification tables) is shared by the  *)
(* request handlers.  A handler runs on the single Node.js event loop, so  *)
(* the code between two awaits is one atomic step; every awaited store     *)
(* call is a point where another request's step may be scheduled.  Each    *)
(* action below is one such step: the store call together with the         *)
(* synchronous code that follows it up to the next await.  The input       *)
(* validation that precedes the first await of a handler touches no shared *)
(* state and is taken together with the first store call.                  *)
(*                                                                         *)
(* prisma.$transaction is the store's transaction primitive: its writes    *)
(* are applied together at commit, or not at all.                          *)
(***************************************************************************)
EXTENDS Integers, Sequences, FiniteSets, Bags, TLC

\* ---------------------------------------------------------------- bounds
\* requests started in a run
MaxRequests == 3

\* A null column / an absent optional input (ids are SERIAL, starting at 1;
\* the handlers test ids by truthiness, so 0 is read as absent as well).
NULL == 0

Procs == {1, 2}
Users == {1, 2, 3}
\* the users who file rescue requests
Requesters == {1}
\* the callers of the location and message routes: the users above and a
\* user who owns no rescue, is no candidate and is in no team
Callers == Users \cup {4}

\* Team and TeamMember rows (team management is outside the rescue routes;
\* the rows are fixed): team 1 is owned by user 2, its member rows are users
\* 2 and 3.  Team 2 does not exist.
Teams == {1}
TeamIdInputs == {1, 2}
TeamOwnerId == [t \in Teams |-> 2]
TeamMemberIds == [t \in Teams |-> {2, 3}]

\* Number(req.params.id) and z.coerce.number() of a text that is no number
NaN == -1
RescueIdInputs == {NaN, 1, 2}
CandidateIdInputs == {NaN, 1, 2, 3}
Positions == {1}

VARIABLES
    rescues,        \* Rescue table: sequence of rows, id = index
    candidates,     \* RescueCandidate table: sequence of rows, id = index
    notifications,  \* Notification table: bag of rows
    req,            \* per request slot: handler position, locals, last response
    started,        \* number of requests started since the initial state
    slots,          \* number of requests the server has in flight at most
    messages,       \* Message table: bag of rows
    emitted,        \* events the last step published to the listeners
    faults,         \* whether notification store calls may throw in this run
    listeners,      \* the listeners of rescueEvents and notificationEvents
    streams,        \* per connection: the event stream it has opened
    evaluation,     \* one call of the rescueFilters functions and its results
    inbox           \* Notification rows by id with their read flag, and the
                    \* last request of the notification routes

vars == <<rescues, candidates, notifications, req, started, slots,
          messages, emitted, faults, listeners, streams, evaluation, inbox>>

\* ------------------------------------------------------------ request state
NoData == [status |-> "absent", other |-> FALSE]
NoExisting == [status |-> "absent", assignedRescuerId |-> NULL, assignedTeamId |-> NULL]

IdleReq ==
    [op |-> "none", pc |-> "idle", caller |-> NULL, rescueId |-> NULL,
     candidateId |-> NULL, teamId |-> NULL, data |-> NoData,
     existing |-> NoExisting, pos |-> NULL, code |-> 0, result |-> NULL,
     error |-> ""]

\* the locals of a handler that has just been entered
NewReq(op, rescueId) == [IdleReq EXCEPT !.op = op, !.rescueId = rescueId]

\* res.status(code).json(...): the handler is finished; the slot keeps the
\* operation and its response (status code and, for proposeCandidate and
\* createRescue, the id of the returned row) until it is used again.
Respond(r, code, result) ==
    [IdleReq EXCEPT !.op = r.op, !.pc = "done", !.code = code, !.result = result]

\* res.status(code).json({ error }) of a validation, lookup or access check
\* (error is the message; "ZodError" stands for a schema's parse error)
Fail(r, code, error) == [Respond(r, code, NULL) EXCEPT !.error = error]

At(r, pc) == [r EXCEPT !.pc = pc]

Free(p) == req[p].pc \in {"idle", "done"}

\* a new request takes the lowest free slot (slots are interchangeable)
Begin(p) ==
    /\ started < MaxRequests
    /\ p <= slots
    /\ Free(p)
    /\ \A q \in Procs : q < p => ~Free(q)
    /\ started' = started + 1
    /\ slots' = slots
    /\ faults' = faults

\* rescueEvents.emit("rescue", ...) and notificationEvents.emit("notification",
\* ...) deliver synchronously to the open streams and keep nothing: a step
\* publishes so many events of each kind.  keepAlive is the connection whose
\* interval timer has written ": keep-alive" in the step, if any.
Emits(rescueEvents, notificationEvents) ==
    [rescue |-> rescueEvents, notification |-> notificationEvents,
     keepAlive |-> NULL]
NoEvents == Emits(0, 0)

RescueExists(id) == id \in DOMAIN rescues
CandidateExists(id) == id \in DOMAIN candidates

\* -------------------------------------------------------------- rescueFilters
\* A query field that is not given (undefined), for the string fields; the
\* number fields use NULL.
Undefined == "undefined"

VEHICLE_TYPES ==
    {"car", "suv", "utv", "truck", "bus", "atv", "motorcycle", "van", "other"}
DRIVETRAIN_TYPES == {"two_wd", "four_wd", "awd"}
TERRAIN_TYPES ==
    {"asphalt", "sand", "mud", "rock", "snow", "water", "gravel", "other"}
PROBLEM_TYPES ==
    {"stuck", "mechanical", "flat_tire", "battery", "fuel", "accident", "other"}
ASSISTANCE_STATUSES == {"none", "en_route", "on_site", "needs_more_help", "resolved"}
ASSISTANCE_CHANNELS == {"none", "community", "official", "commercial", "private"}
RESCUE_STATUSES == {"pending", "accepted", "resolved"}

\* the query without any field (limit and cursor are not read by the filters)
NoFilters ==
    [vehicleType |-> Undefined, drivetrain |-> Undefined, terrainType |-> Undefined,
     problemType |-> Undefined, assistanceStatus |-> Undefined,
     assistanceChannel |-> Undefined, status |-> Undefined,
     from |-> Undefined, to |-> Undefined,
     minLat |-> NULL, maxLat |-> NULL, minLng |-> NULL, maxLng |-> NULL]

\* rescueQuerySchema.safeParse: the enum fields hold a member of their enum,
\* from and to any string, and z.coerce.number() refuses what Number() turns
\* into NaN.
rescueQuerySchema(query) ==
    [success |->
        /\ query.vehicleType \in VEHICLE_TYPES \cup {Undefined}
        /\ query.drivetrain \in DRIVETRAIN_TYPES \cup {Undefined}
        /\ query.terrainType \in TERRAIN_TYPES \cup {Undefined}
        /\ query.problemType \in PROBLEM_TYPES \cup {Undefined}
        /\ query.assistanceStatus \in ASSISTANCE_STATUSES \cup {Undefined}
        /\ query.assistanceChannel \in ASSISTANCE_CHANNELS \cup {Undefined}
        /\ query.status \in RESCUE_STATUSES \cup {Undefined}
        /\ query.minLat # NaN /\ query.maxLat # NaN
        /\ query.minLng # NaN /\ query.maxLng # NaN,
     data |-> query]

\* if (filters.x): a string that is given and not empty
Truthy(value) == value # Undefined /\ value # ""

\* mutant: a text that is not a date is read as the first date
getTimeLenient(text) ==
    CASE text = "2025-01-01" -> 1
      [] text = "2025-01-02" -> 2
      [] text = "2025-01-03" -> 3
      [] OTHER -> 1

\* new Date(text).getTime(): the timestamp of a date string, NaN for a text
\* that is not a date
getTime(text) ==
    CASE text = "2025-01-01" -> 1
      [] text = "2025-01-02" -> 2
      [] text = "2025-01-03" -> 3
      [] OTHER -> NaN

Min(a, b) == IF a <= b THEN a ELSE b
Max(a, b) == IF a >= b THEN a ELSE b

\* { gte, lte } of a where-clause; NULL for a bound that is not set
Range(gte, lte) == [gte |-> gte, lte |-> lte]
NoRange == Range(NULL, NULL)

\* all four bounds of the box are given
HasBbox(filters) ==
    /\ filters.minLat # NULL /\ filters.maxLat # NULL
    /\ filters.minLng # NULL /\ filters.maxLng # NULL

\* the where-clause without any condition
NoWhere ==
    [vehicleType |-> Undefined, drivetrain |-> Undefined, terrainType |-> Undefined,
     problemType |-> Undefined, assistanceStatus |-> Undefined,
     assistanceChannel |-> Undefined, status |-> Undefined,
     createdAt |-> NoRange, latitude |-> NoRange, longitude |-> NoRange]

\* mutant: the bounds of the box are taken as they are given
buildRescueWhereAsGiven(filters) ==
    LET exact(value) == IF Truthy(value) THEN value ELSE Undefined
        dated == Truthy(filters.from) \/ Truthy(filters.to)
        fromDate == IF Truthy(filters.from) THEN getTime(filters.from) ELSE NULL
        toDate == IF Truthy(filters.to) THEN getTime(filters.to) ELSE NULL
    IN  IF dated /\ Truthy(filters.from) /\ fromDate = NaN
        THEN [error |-> "Fecha 'from' invalida", where |-> NoWhere]
        ELSE IF dated /\ Truthy(filters.to) /\ toDate = NaN
        THEN [error |-> "Fecha 'to' invalida", where |-> NoWhere]
        ELSE [error |-> "",
              where |->
                [vehicleType |-> exact(filters.vehicleType),
                 drivetrain |-> exact(filters.drivetrain),
                 terrainType |-> exact(filters.terrainType),
                 problemType |-> exact(filters.problemType),
                 assistanceStatus |-> exact(filters.assistanceStatus),
                 assistanceChannel |-> exact(filters.assistanceChannel),
                 status |-> exact(filters.status),
                 createdAt |-> IF dated THEN Range(fromDate, toDate) ELSE NoRange,
                 latitude |->
                    IF HasBbox(filters)
                    THEN Range(filters.minLat, filters.maxLat)
                    ELSE NoRange,
                 longitude |->
                    IF HasBbox(filters)
                    THEN Range(filters.minLng, filters.maxLng)
                    ELSE NoRange]]

\* buildRescueWhere: the where-clause of the filters, or the error it throws
\* (error is the message, empty when it returns)
buildRescueWhere(filters) ==
    LET exact(value) == IF Truthy(value) THEN value ELSE Undefined
        dated == Truthy(filters.from) \/ Truthy(filters.to)
        fromDate == IF Truthy(filters.from) THEN getTime(filters.from) ELSE NULL
        toDate == IF Truthy(filters.to) THEN getTime(filters.to) ELSE NULL
    IN  IF dated /\ Truthy(filters.from) /\ fromDate = NaN
        THEN [error |-> "Fecha 'from' invalida", where |-> NoWhere]
        ELSE IF dated /\ Truthy(filters.to) /\ toDate = NaN
        THEN [error |-> "Fecha 'to' invalida", where |-> NoWhere]
        ELSE [error |-> "",
              where |->
                [vehicleType |-> exact(filters.vehicleType),
                 drivetrain |-> exact(filters.drivetrain),
                 terrainType |-> exact(filters.terrainType),
                 problemType |-> exact(filters.problemType),
                 assistanceStatus |-> exact(filters.assistanceStatus),
                 assistanceChannel |-> exact(filters.assistanceChannel),
                 status |-> exact(filters.status),
                 createdAt |-> IF dated THEN Range(fromDate, toDate) ELSE NoRange,
                 latitude |->
                    IF HasBbox(filters)
                    THEN Range(Min(filters.minLat, filters.maxLat),
                               Max(filters.minLat, filters.maxLat))
                    ELSE NoRange,
                 longitude |->
                    IF HasBbox(filters)
                    THEN Range(Min(filters.minLng, filters.maxLng),
                               Max(filters.minLng, filters.maxLng))
                    ELSE NoRange]]

\* mutant: a column that is null passes an exact-match field
matchesStreamFiltersNullPasses(rescue, filters) ==
    LET differs(value, column) ==
            Truthy(value) /\ column # "null" /\ column # value IN
    IF differs(filters.vehicleType, rescue.vehicleType) THEN FALSE
    ELSE IF differs(filters.drivetrain, rescue.drivetrain) THEN FALSE
    ELSE IF differs(filters.terrainType, rescue.terrainType) THEN FALSE
    ELSE IF differs(filters.problemType, rescue.problemType) THEN FALSE
    ELSE IF differs(filters.assistanceStatus, rescue.assistanceStatus) THEN FALSE
    ELSE IF differs(filters.assistanceChannel, rescue.assistanceChannel) THEN FALSE
    ELSE IF differs(filters.status, rescue.status) THEN FALSE
    ELSE IF /\ Truthy(filters.from)
            /\ getTime(filters.from) # NaN
            /\ rescue.createdAt < getTime(filters.from) THEN FALSE
    ELSE IF /\ Truthy(filters.to)
            /\ getTime(filters.to) # NaN
            /\ rescue.createdAt > getTime(filters.to) THEN FALSE
    ELSE IF /\ HasBbox(filters)
            /\ \/ rescue.latitude < Min(filters.minLat, filters.maxLat)
               \/ rescue.latitude > Max(filters.minLat, filters.maxLat)
               \/ rescue.longitude < Min(filters.minLng, filters.maxLng)
               \/ rescue.longitude > Max(filters.minLng, filters.maxLng) THEN FALSE
    ELSE TRUE

\* matchesStreamFilters: the test of one record against the filters
matchesStreamFilters(rescue, filters) ==
    LET differs(value, column) == Truthy(value) /\ column # value IN
    IF differs(filters.vehicleType, rescue.vehicleType) THEN FALSE
    ELSE IF differs(filters.drivetrain, rescue.drivetrain) THEN FALSE
    ELSE IF differs(filters.terrainType, rescue.terrainType) THEN FALSE
    ELSE IF differs(filters.problemType, rescue.problemType) THEN FALSE
    ELSE IF differs(filters.assistanceStatus, rescue.assistanceStatus) THEN FALSE
    ELSE IF differs(filters.assistanceChannel, rescue.assistanceChannel) THEN FALSE
    ELSE IF differs(filters.status, rescue.status) THEN FALSE
    ELSE IF /\ Truthy(filters.from)
            /\ getTime(filters.from) # NaN
            /\ rescue.createdAt < getTime(filters.from) THEN FALSE
    ELSE IF /\ Truthy(filters.to)
            /\ getTime(filters.to) # NaN
            /\ rescue.createdAt > getTime(filters.to) THEN FALSE
    ELSE IF /\ HasBbox(filters)
            /\ \/ rescue.latitude < Min(filters.minLat, filters.maxLat)
               \/ rescue.latitude > Max(filters.minLat, filters.maxLat)
               \/ rescue.longitude < Min(filters.minLng, filters.maxLng)
               \/ rescue.longitude > Max(filters.minLng, filters.maxLng) THEN FALSE
    ELSE TRUE

\* ------------------------------------------------------------- event streams
\* The connections that may open a stream.
Conns == {1, 2}

\* What the listener of a stream does with an event that passes, in a run
\* with faults: it calls res.write with the event (whether or not the socket
\* takes it), or it throws.
Faults == IF faults THEN {"none", "throws"} ELSE {"none"}

\* a connection that has not asked for a stream
NoStream ==
    [channel |-> "none", state |-> "none", filters |-> NoFilters, userId |-> NULL,
     timer |-> FALSE, written |-> << >>, code |-> 0, error |-> "", fault |-> "none"]

NoListeners == [rescue |-> << >>, notification |-> << >>]

\* res.status(code).json({ error }): the stream is refused
Refused(channel, code, error) ==
    [NoStream EXCEPT !.channel = channel, !.state = "rejected",
                     !.code = code, !.error = error]

\* the headers, "event: ready" and its data are written
Opened(channel, filters, userId, fault) ==
    [NoStream EXCEPT !.channel = channel, !.state = "open", !.filters = filters,
                     !.userId = userId, !.timer = TRUE, !.code = 200,
                     !.fault = fault]

\* The payload of a rescue event is the row.  The columns of a row that the
\* tables above do not keep are those the row was filed with, the same for
\* every row.
RescueStreamRecord(id, rescue) ==
    [id |-> id, userId |-> rescue.userId, status |-> rescue.status,
     assignedRescuerId |-> rescue.assignedRescuerId,
     assignedTeamId |-> rescue.assignedTeamId,
     vehicleType |-> "suv", drivetrain |-> "four_wd", terrainType |-> "sand",
     problemType |-> "stuck", assistanceStatus |-> "none",
     assistanceChannel |-> "community",
     latitude |-> 2, longitude |-> 2, createdAt |-> 2]

RescuePayload(type, id, rescue) ==
    [type |-> type, rescue |-> RescueStreamRecord(id, rescue)]

\* mutant: the listener writes every event
ListenerUnfiltered(stream, payload) ==
    [stream |-> [stream EXCEPT !.written = Append(@, payload)], thrown |-> FALSE]

\* mutant: onNotification does not compare the recipient
ListenerAnyUser(stream, payload) ==
    LET passes == IF stream.channel = "rescue"
                  THEN matchesStreamFilters(payload.rescue, stream.filters)
                  ELSE TRUE IN
    IF ~passes THEN [stream |-> stream, thrown |-> FALSE]
    ELSE IF stream.fault = "throws" THEN [stream |-> stream, thrown |-> TRUE]
    ELSE [stream |-> [stream EXCEPT !.written = Append(@, payload)],
          thrown |-> FALSE]

\* mutant: res.write to a connection that is gone throws
ListenerGoneThrows(stream, payload) ==
    LET passes == IF stream.channel = "rescue"
                  THEN matchesStreamFilters(payload.rescue, stream.filters)
                  ELSE payload.userId = stream.userId IN
    IF ~passes THEN [stream |-> stream, thrown |-> FALSE]
    ELSE IF stream.fault \in {"throws", "gone"} THEN [stream |-> stream, thrown |-> TRUE]
    ELSE [stream |-> [stream EXCEPT !.written = Append(@, payload)],
          thrown |-> FALSE]

\* onRescue / onNotification of one stream, called with a payload: nothing
\* when the payload does not pass, else res.write of the event.  res.write
\* does not wait for the client: on a slow connection the event is queued,
\* on one that is gone (its close handler has not run yet) it is dropped;
\* in both cases the call returns.
Listener(stream, payload) ==
    LET passes == IF stream.channel = "rescue"
                  THEN matchesStreamFilters(payload.rescue, stream.filters)
                  ELSE payload.userId = stream.userId IN
    IF ~passes THEN [stream |-> stream, thrown |-> FALSE]
    ELSE IF stream.fault = "throws" THEN [stream |-> stream, thrown |-> TRUE]
    ELSE IF stream.fault = "gone" THEN [stream |-> stream, thrown |-> FALSE]
    ELSE [stream |-> [stream EXCEPT !.written = Append(@, payload)],
          thrown |-> FALSE]

\* EventEmitter.emit: the listeners are called in the order they were
\* registered; an exception of a listener ends the call and is thrown to the
\* caller of emit.
RECURSIVE emit(_, _, _)
emit(registered, table, payload) ==
    IF registered = << >> THEN [streams |-> table, thrown |-> FALSE]
    ELSE LET c == Head(registered)
             out == Listener(table[c], payload) IN
         IF out.thrown THEN [streams |-> table, thrown |-> TRUE]
         ELSE emit(Tail(registered), [table EXCEPT ![c] = out.stream], payload)

emitRescueEvent(payload) == emit(listeners.rescue, streams, payload)

\* notifications.forEach(emitNotification): published counts the calls of
\* emit that were made
RECURSIVE emitNotifications(_, _)
emitNotifications(table, rows) ==
    IF rows = << >> THEN [streams |-> table, thrown |-> FALSE, published |-> 0]
    ELSE LET out == emit(listeners.notification, table, Head(rows)) IN
         IF out.thrown
         THEN [streams |-> out.streams, thrown |-> TRUE, published |-> 1]
         ELSE LET rest == emitNotifications(out.streams, Tail(rows)) IN
              [rest EXCEPT !.published = @ + 1]

\* ------------------------------------------------------------------ helpers
isTeamMember(teamId, userId) ==
    IF teamId \notin Teams THEN [exists |-> FALSE, isMember |-> FALSE]
    ELSE IF TeamOwnerId[teamId] = userId THEN [exists |-> TRUE, isMember |-> TRUE]
    ELSE [exists |-> TRUE, isMember |-> userId \in TeamMemberIds[teamId]]

\* mutant: the member rows are left out
TeamRecipientsOwnerOnly(teamId) ==
    IF teamId \in Teams THEN {TeamOwnerId[teamId]} ELSE {}

\* teamMembers.forEach(add); if (team?.ownerId) add(ownerId)
TeamRecipients(teamId) ==
    IF teamId \in Teams THEN TeamMemberIds[teamId] \cup {TeamOwnerId[teamId]} ELSE {}

Notification(userId, type, rescueId) ==
    [userId |-> userId, type |-> type, rescueId |-> rescueId]

NotificationBatch(recipients, type, rescueId) ==
    SetToBag({Notification(u, type, rescueId) : u \in recipients})

\* Array.from(recipients).map(...): one item per distinct recipient
RECURSIVE NotificationItems(_, _, _)
NotificationItems(recipients, type, rescueId) ==
    IF recipients = {} THEN << >>
    ELSE LET u == CHOOSE x \in recipients : \A y \in recipients : x <= y IN
         << Notification(u, type, rescueId) >>
            \o NotificationItems(recipients \ {u}, type, rescueId)

\* prisma.notification.create for each item, in order
RECURSIVE InsertAll(_, _)
InsertAll(table, items) ==
    IF items = << >> THEN table
    ELSE InsertAll(table (+) SetToBag({Head(items)}), Tail(items))

\* createNotification: one create, then one emitNotification.  The result is
\* the Notification table and the rows it goes on to emit.
createNotification(table, item, ok) ==
    IF ok THEN [table |-> table (+) SetToBag({item}), events |-> << item >>]
    ELSE [table |-> table, events |-> << >>]

\* mutant: the creates are not in a transaction, the rows created before
\* the failing one stay
createNotificationsNoTransaction(table, items, failAt) ==
    IF failAt = 0 THEN [table |-> InsertAll(table, items), events |-> items]
    ELSE [table |-> InsertAll(table, SubSeq(items, 1, failAt - 1)), events |-> << >>]

\* mutant: the rows are emitted whether or not the transaction commits
createNotificationsEmitsFirst(table, items, failAt) ==
    IF failAt = 0 THEN [table |-> InsertAll(table, items), events |-> items]
    ELSE [table |-> table, events |-> items]

\* createNotifications: nothing for an empty batch; else the creates in one
\* prisma.$transaction (failAt = 0: all succeed; failAt = k: the k-th throws
\* and the batch is rolled back), then emitNotification for each row.
createNotifications(table, items, failAt) ==
    IF items = << >> THEN [table |-> table, events |-> << >>]
    ELSE IF failAt = 0 THEN [table |-> InsertAll(table, items), events |-> items]
    ELSE [table |-> table, events |-> << >>]

\* the outcomes of createNotifications to the recipients: every create
\* succeeds (ok), or one of them throws
FanOut(recipients, type, rescueId, ok) ==
    LET items == NotificationItems(recipients, type, rescueId) IN
    {createNotifications(notifications, items, failAt) :
        failAt \in IF ok THEN {0} ELSE 1..Len(items)}

\* if (candidate.userId) createNotification(...) else if (candidate.teamId)
\* createNotifications(members and owner of the team)
CandidateFanOut(candidate, type, rescueId, ok) ==
    IF candidate.userId # NULL
    THEN {createNotification(notifications,
                             Notification(candidate.userId, type, rescueId), ok)}
    ELSE IF candidate.teamId # NULL
    THEN FanOut(TeamRecipients(candidate.teamId), type, rescueId, ok)
    ELSE IF ok THEN {[table |-> notifications, events |-> << >>]} ELSE {}

\* --------------------------------------------------------------- createRescue
NewRescue(userId) ==
    [userId |-> userId, status |-> "pending",
     assignedRescuerId |-> NULL, assignedTeamId |-> NULL,
     rescuerPos |-> NULL]

CreateRescue(p, caller, ok) ==
    /\ Begin(p)
    /\ IF ok
       THEN LET sent == emitRescueEvent(
                            RescuePayload("create", Len(rescues) + 1, NewRescue(caller))) IN
            /\ rescues' = Append(rescues, NewRescue(caller))
            /\ streams' = sent.streams
            /\ req' = [req EXCEPT ![p] =
                          IF sent.thrown
                          THEN Respond(NewReq("createRescue", NULL), 500, NULL)
                          ELSE Respond(NewReq("createRescue", NULL), 201, Len(rescues) + 1)]
       ELSE /\ rescues' = rescues
            /\ streams' = streams
            /\ req' = [req EXCEPT ![p] =
                          Respond(NewReq("createRescue", NULL), 500, NULL)]
    /\ emitted' = IF ok THEN Emits(1, 0) ELSE NoEvents
    /\ UNCHANGED <<messages, candidates, notifications, listeners, evaluation, inbox>>

\* --------------------------------------------------------------- updateRescue
\* rescueUpdateSchema: status, when present, is any of the three values;
\* other tells whether one of the other optional fields (assistanceStatus,
\* assistanceChannel, assistanceProvider, problemType) is present.  Those
\* columns are not part of the rows modelled here.
UpdateStatusInputs == {"absent", "pending", "accepted", "resolved"}
UpdateInputs == [status : UpdateStatusInputs, other : BOOLEAN]

\* mutant: an update without fields is let through
EmptyUpdateNever(data) == FALSE

\* Object.keys(parsed.data).length === 0
EmptyUpdate(data) == data.status = "absent" /\ ~data.other

\* mutant: an update of the status empties the assignment fields
ApplyRescueUpdateClearsAssignment(rescue, data) ==
    IF data.status = "absent" THEN rescue
    ELSE [rescue EXCEPT !.status = data.status,
                        !.assignedRescuerId = NULL, !.assignedTeamId = NULL]

\* prisma.rescue.update({ where: { id }, data: parsed.data }): the fields
\* present in data overwrite the row's, the others are kept.
ApplyRescueUpdate(rescue, data) ==
    [rescue EXCEPT !.status = IF data.status = "absent" THEN @ ELSE data.status]

\* select { status, assignedRescuerId, assignedTeamId } of the row read
\* first.  The handler reads existing again only under
\* parsed.data.status === "resolved"; what is never read again is not kept.
Snapshot(rescue, data) ==
    IF data.status # "resolved" THEN NoExisting
    ELSE [status |-> rescue.status,
          assignedRescuerId |-> rescue.assignedRescuerId,
          assignedTeamId |-> rescue.assignedTeamId]

\* mutant: the prior status is not compared
ShouldNotifyResolvedAlways(data, existing) ==
    data.status = "resolved"

\* parsed.data.status === "resolved" && existing.status !== "resolved"
ShouldNotifyResolved(data, existing) ==
    data.status = "resolved" /\ existing.status # "resolved"

\* recipients of the rescue_resolved batch, from the row read first
ResolvedRecipients(existing) ==
    (IF existing.assignedRescuerId # NULL THEN {existing.assignedRescuerId} ELSE {})
    \cup (IF existing.assignedTeamId # NULL
          THEN TeamRecipients(existing.assignedTeamId) ELSE {})

\* validation, findUnique, 404 and owner check
UpdateRescueRead(p, caller, rescueId, data, unknownField) ==
    /\ Begin(p)
    /\ LET r == [NewReq("updateRescue", rescueId) EXCEPT !.data = data] IN
       req' = [req EXCEPT ![p] =
           IF rescueId = NaN THEN Fail(r, 400, "ID invalido")
           ELSE IF unknownField THEN Fail(r, 400, "ZodError")
           ELSE IF EmptyUpdate(data) THEN Fail(r, 400, "Sin campos para actualizar")
           ELSE IF ~RescueExists(rescueId) THEN Fail(r, 404, "Rescate no encontrado")
           ELSE IF rescues[rescueId].userId # caller THEN Fail(r, 403, "No autorizado")
           ELSE [At(r, "U_update") EXCEPT !.existing = Snapshot(rescues[rescueId], data)]]
    /\ emitted' = NoEvents
    /\ UNCHANGED <<messages, rescues, candidates, notifications, listeners, streams, evaluation, inbox>>

\* prisma.rescue.update, emitRescueEvent, and the decision to notify
UpdateRescueWrite(p, ok) ==
    /\ req[p].pc = "U_update"
    /\ LET r == req[p] IN
       IF ok
       THEN LET updated == ApplyRescueUpdate(rescues[r.rescueId], r.data)
                sent == emitRescueEvent(RescuePayload("update", r.rescueId, updated)) IN
            /\ rescues' = [rescues EXCEPT ![r.rescueId] = updated]
            /\ streams' = sent.streams
            /\ req' = [req EXCEPT ![p] =
                  IF sent.thrown THEN Respond(r, 500, NULL)
                  ELSE IF /\ ShouldNotifyResolved(r.data, r.existing)
                          /\ ResolvedRecipients(r.existing) # {}
                  THEN At(r, "U_notify")
                  ELSE Respond(r, 200, NULL)]
       ELSE /\ rescues' = rescues
            /\ streams' = streams
            /\ req' = [req EXCEPT ![p] = Respond(r, 500, NULL)]
    /\ emitted' = IF ok THEN Emits(1, 0) ELSE NoEvents
    /\ UNCHANGED <<messages, candidates, notifications, started, slots, faults,
                   listeners, evaluation, inbox>>

\* mutant: a failed fan-out puts the rescue's prior status back
UpdateRescueNotifyRollsBack(p, ok) ==
    /\ req[p].pc = "U_notify"
    /\ LET r == req[p] IN
       \E out \in FanOut(ResolvedRecipients(r.existing), "rescue_resolved", r.rescueId, ok) :
          LET sent == emitNotifications(streams, out.events) IN
             /\ notifications' = out.table
             /\ streams' = sent.streams
             /\ emitted' = Emits(0, sent.published)
             /\ rescues' = IF ok THEN rescues
                           ELSE [rescues EXCEPT ![r.rescueId].status = r.existing.status]
             /\ req' = [req EXCEPT ![p] =
                   Respond(r, IF ok /\ ~sent.thrown THEN 200 ELSE 500, NULL)]
    /\ UNCHANGED <<messages, candidates, started, slots, faults, listeners, evaluation, inbox>>

\* createNotifications(rescue_resolved batch)
UpdateRescueNotify(p, ok) ==
    /\ req[p].pc = "U_notify"
    /\ LET r == req[p] IN
       \E out \in FanOut(ResolvedRecipients(r.existing), "rescue_resolved", r.rescueId, ok) :
          LET sent == emitNotifications(streams, out.events) IN
             /\ notifications' = out.table
             /\ streams' = sent.streams
             /\ emitted' = Emits(0, sent.published)
             /\ req' = [req EXCEPT ![p] =
                   Respond(r, IF ok /\ ~sent.thrown THEN 200 ELSE 500, NULL)]
    /\ UNCHANGED <<messages, rescues, candidates, started, slots, faults, listeners, evaluation, inbox>>

\* ----------------------------------------------------------- proposeCandidate
\* mutant: the proposing user is stored on a team candidacy as well
NewCandidateKeepsUser(rescueId, userId, teamId) ==
    [rescueId |-> rescueId, userId |-> userId, teamId |-> teamId, status |-> "pending"]

\* data of rescueCandidate.create: userId only without teamId, else teamId
NewCandidate(rescueId, userId, teamId) ==
    [rescueId |-> rescueId,
     userId |-> IF teamId # NULL THEN NULL ELSE userId,
     teamId |-> teamId,
     status |-> "pending"]

\* mutant: the lookup is by { rescueId, userId } whatever the teamId
FindExistingCandidateByUser(rescueId, userId, teamId) ==
    {c \in DOMAIN candidates :
        candidates[c].rescueId = rescueId /\ candidates[c].userId = userId}

\* where: teamId ? { rescueId, teamId } : { rescueId, userId }
FindExistingCandidate(rescueId, userId, teamId) ==
    {c \in DOMAIN candidates :
        /\ candidates[c].rescueId = rescueId
        /\ IF teamId # NULL THEN candidates[c].teamId = teamId
                            ELSE candidates[c].userId = userId}

\* mutant: only a resolved rescue is closed to proposals
RescueUnavailableResolvedOnly(rescue) ==
    rescue.status = "resolved"

\* rescue.status === "resolved" || assignedRescuerId || assignedTeamId
RescueUnavailable(rescue) ==
    \/ rescue.status = "resolved"
    \/ rescue.assignedRescuerId # NULL
    \/ rescue.assignedTeamId # NULL

\* findUnique of the rescue, availability check, team membership check
ProposeRead(p, caller, rescueId, teamId) ==
    /\ Begin(p)
    /\ LET r == [NewReq("proposeCandidate", rescueId) EXCEPT !.caller = caller, !.teamId = teamId]
           membership == isTeamMember(teamId, caller) IN
       req' = [req EXCEPT ![p] =
           IF rescueId = NaN THEN Fail(r, 400, "ID invalido")
           ELSE IF ~RescueExists(rescueId) THEN Fail(r, 404, "Rescate no encontrado")
           ELSE IF RescueUnavailable(rescues[rescueId]) THEN Fail(r, 400, "Rescate no disponible")
           ELSE IF teamId # NULL /\ ~membership.exists THEN Fail(r, 404, "Equipo no encontrado")
           ELSE IF teamId # NULL /\ ~membership.isMember THEN Fail(r, 403, "No autorizado")
           ELSE At(r, "P_lookup")]
    /\ emitted' = NoEvents
    /\ UNCHANGED <<messages, rescues, candidates, notifications, listeners, streams, evaluation, inbox>>

\* rescueCandidate.findFirst (no orderBy: any matching row); 200 with it
ProposeLookup(p) ==
    /\ req[p].pc = "P_lookup"
    /\ LET r == req[p]
           found == FindExistingCandidate(r.rescueId, r.caller, r.teamId) IN
       IF found # {}
       THEN \E c \in found : req' = [req EXCEPT ![p] = Respond(r, 200, c)]
       ELSE req' = [req EXCEPT ![p] = At(r, "P_create")]
    /\ emitted' = NoEvents
    /\ UNCHANGED <<messages, rescues, candidates, notifications, started, slots, faults,
                   listeners, streams, evaluation, inbox>>

\* rescueCandidate.create
ProposeCreate(p, ok) ==
    /\ req[p].pc = "P_create"
    /\ LET r == req[p] IN
       IF ok
       THEN /\ candidates' = Append(candidates, NewCandidate(r.rescueId, r.caller, r.teamId))
            /\ req' = [req EXCEPT ![p] = [At(r, "P_notify") EXCEPT !.result = Len(candidates) + 1]]
       ELSE /\ candidates' = candidates
            /\ req' = [req EXCEPT ![p] = Respond(r, 500, NULL)]
    /\ emitted' = NoEvents
    /\ UNCHANGED <<messages, rescues, notifications, started, slots, faults,
                   listeners, streams, evaluation, inbox>>

\* createNotification(rescue_candidate) to the rescue's owner
ProposeNotify(p, ok) ==
    /\ req[p].pc = "P_notify"
    /\ LET r == req[p]
           out == createNotification(notifications,
                     Notification(rescues[r.rescueId].userId, "rescue_candidate", r.rescueId),
                     ok)
           sent == emitNotifications(streams, out.events) IN
       /\ notifications' = out.table
       /\ streams' = sent.streams
       /\ emitted' = Emits(0, sent.published)
       /\ req' = [req EXCEPT ![p] =
             IF ok /\ ~sent.thrown THEN Respond(r, 201, r.result)
             ELSE Respond(r, 500, NULL)]
    /\ UNCHANGED <<messages, rescues, candidates, started, slots, faults,
                   listeners, evaluation, inbox>>

\* ------------------------------------------------------------ assignCandidate
\* The three writes of the $transaction callback, in order.  candidate is
\* the row read by findUnique before the transaction (its id, userId and
\* teamId never change after creation).
Write(op, id, rescueId, status, assignedRescuerId, assignedTeamId) ==
    [op |-> op, id |-> id, rescueId |-> rescueId, status |-> status,
     assignedRescuerId |-> assignedRescuerId, assignedTeamId |-> assignedTeamId]

\* mutant: the other candidates of the rescue are not closed out
AssignWritesKeepOthers(rescueId, candidateId, candidate) ==
    << Write("rescueCandidate.update", candidateId, rescueId, "accepted", NULL, NULL),
       Write("rescue.update", rescueId, rescueId, "accepted",
             candidate.userId, candidate.teamId) >>

AssignWrites(rescueId, candidateId, candidate) ==
    << Write("rescueCandidate.update", candidateId, rescueId, "accepted", NULL, NULL),
       Write("rescueCandidate.updateMany", candidateId, rescueId, "rejected", NULL, NULL),
       Write("rescue.update", rescueId, rescueId, "accepted",
             candidate.userId, candidate.teamId) >>

\* mutant: updateMany without the rescueId condition
ApplyWriteAnyRescue(db, w) ==
    IF w.op = "rescueCandidate.update"
    THEN [db EXCEPT !.candidates[w.id].status = w.status]
    ELSE IF w.op = "rescueCandidate.updateMany"
    THEN [db EXCEPT !.candidates =
            [c \in DOMAIN @ |->
                IF c # w.id THEN [@[c] EXCEPT !.status = w.status] ELSE @[c]]]
    ELSE [db EXCEPT !.rescues[w.id] =
            [@ EXCEPT !.status = w.status,
                      !.assignedRescuerId = w.assignedRescuerId,
                      !.assignedTeamId = w.assignedTeamId]]

\* one write applied to the tables db = [rescues, candidates]
ApplyWrite(db, w) ==
    IF w.op = "rescueCandidate.update"
    THEN [db EXCEPT !.candidates[w.id].status = w.status]
    ELSE IF w.op = "rescueCandidate.updateMany"
    THEN [db EXCEPT !.candidates =
            [c \in DOMAIN @ |->
                IF @[c].rescueId = w.rescueId /\ c # w.id
                THEN [@[c] EXCEPT !.status = w.status] ELSE @[c]]]
    ELSE [db EXCEPT !.rescues[w.id] =
            [@ EXCEPT !.status = w.status,
                      !.assignedRescuerId = w.assignedRescuerId,
                      !.assignedTeamId = w.assignedTeamId]]

RECURSIVE ApplyWrites(_, _)
ApplyWrites(db, ws) ==
    IF ws = << >> THEN db ELSE ApplyWrites(ApplyWrite(db, Head(ws)), Tail(ws))

\* prisma.$transaction: failAt = 0 when every write succeeds and the
\* transaction commits; failAt = k when the k-th write throws, and the
\* transaction is rolled back.
\* mutant: the writes made before the failing one stay (no transaction)
TransactionNoRollback(db, ws, failAt) ==
    IF failAt = 0 THEN ApplyWrites(db, ws) ELSE ApplyWrites(db, SubSeq(ws, 1, failAt - 1))

Transaction(db, ws, failAt) ==
    IF failAt = 0 THEN ApplyWrites(db, ws) ELSE db

\* mutant: the owner check is missing
AssignReadNoOwnerCheck(p, caller, rescueId, candidateId) ==
    /\ Begin(p)
    /\ LET r == [NewReq("assignCandidate", rescueId) EXCEPT !.candidateId = candidateId] IN
       req' = [req EXCEPT ![p] =
           IF rescueId = NaN \/ candidateId = NaN THEN Fail(r, 400, "ID invalido")
           ELSE IF ~RescueExists(rescueId) THEN Fail(r, 404, "Rescate no encontrado")
           ELSE IF rescues[rescueId].status = "resolved" THEN Fail(r, 400, "Rescate ya resuelto")
           ELSE At(r, "A_candidate")]
    /\ emitted' = NoEvents
    /\ UNCHANGED <<messages, rescues, candidates, notifications, listeners, streams, evaluation, inbox>>

\* findUnique of the rescue, 404, owner check, resolved check
AssignRead(p, caller, rescueId, candidateId) ==
    /\ Begin(p)
    /\ LET r == [NewReq("assignCandidate", rescueId) EXCEPT !.candidateId = candidateId] IN
       req' = [req EXCEPT ![p] =
           IF rescueId = NaN \/ candidateId = NaN THEN Fail(r, 400, "ID invalido")
           ELSE IF ~RescueExists(rescueId) THEN Fail(r, 404, "Rescate no encontrado")
           ELSE IF rescues[rescueId].userId # caller THEN Fail(r, 403, "No autorizado")
           ELSE IF rescues[rescueId].status = "resolved" THEN Fail(r, 400, "Rescate ya resuelto")
           ELSE At(r, "A_candidate")]
    /\ emitted' = NoEvents
    /\ UNCHANGED <<messages, rescues, candidates, notifications, listeners, streams, evaluation, inbox>>

\* findUnique of the candidate, 404 when absent or of another rescue
AssignCandidateRead(p) ==
    /\ req[p].pc = "A_candidate"
    /\ LET r == req[p] IN
       req' = [req EXCEPT ![p] =
           IF \/ ~CandidateExists(r.candidateId)
              \/ candidates[r.candidateId].rescueId # r.rescueId
           THEN Fail(r, 404, "Candidato no encontrado")
           ELSE At(r, "A_transaction")]
    /\ emitted' = NoEvents
    /\ UNCHANGED <<messages, rescues, candidates, notifications, started, slots, faults,
                   listeners, streams, evaluation, inbox>>

\* the $transaction, then emitRescueEvent
AssignTransaction(p, failAt) ==
    /\ req[p].pc = "A_transaction"
    /\ LET r == req[p]
           db == Transaction([rescues |-> rescues, candidates |-> candidates],
                             AssignWrites(r.rescueId, r.candidateId, candidates[r.candidateId]),
                             failAt)
           sent == IF failAt = 0
                   THEN emitRescueEvent(
                            RescuePayload("update", r.rescueId, db.rescues[r.rescueId]))
                   ELSE [streams |-> streams, thrown |-> FALSE] IN
       /\ rescues' = db.rescues
       /\ candidates' = db.candidates
       /\ streams' = sent.streams
       /\ req' = [req EXCEPT ![p] =
             IF failAt = 0 /\ ~sent.thrown THEN At(r, "A_notify")
             ELSE Respond(r, 500, NULL)]
    /\ emitted' = IF failAt = 0 THEN Emits(1, 0) ELSE NoEvents
    /\ UNCHANGED <<messages, notifications, started, slots, faults, listeners, evaluation, inbox>>

\* rescue_assigned to the winning user, or to the winning team's members and owner
AssignedRecipients(candidate) ==
    IF candidate.userId # NULL THEN {candidate.userId}
    ELSE IF candidate.teamId # NULL THEN TeamRecipients(candidate.teamId)
    ELSE {}

AssignNotify(p, ok) ==
    /\ req[p].pc = "A_notify"
    /\ LET r == req[p] IN
       \E out \in CandidateFanOut(candidates[r.candidateId], "rescue_assigned", r.rescueId, ok) :
          LET sent == emitNotifications(streams, out.events) IN
             /\ notifications' = out.table
             /\ streams' = sent.streams
             /\ emitted' = Emits(0, sent.published)
             /\ req' = [req EXCEPT ![p] =
                   Respond(r, IF ok /\ ~sent.thrown THEN 200 ELSE 500, NULL)]
    /\ UNCHANGED <<messages, rescues, candidates, started, slots, faults, listeners, evaluation, inbox>>

\* ------------------------------------------------------------ rejectCandidate
\* findUnique of the rescue, 404, owner check
RejectRead(p, caller, rescueId, candidateId) ==
    /\ Begin(p)
    /\ LET r == [NewReq("rejectCandidate", rescueId) EXCEPT !.candidateId = candidateId] IN
       req' = [req EXCEPT ![p] =
           IF rescueId = NaN \/ candidateId = NaN THEN Fail(r, 400, "ID invalido")
           ELSE IF ~RescueExists(rescueId) THEN Fail(r, 404, "Rescate no encontrado")
           ELSE IF rescues[rescueId].userId # caller THEN Fail(r, 403, "No autorizado")
           ELSE At(r, "R_candidate")]
    /\ emitted' = NoEvents
    /\ UNCHANGED <<messages, rescues, candidates, notifications, listeners, streams, evaluation, inbox>>

\* mutant: the pending check is missing
RejectCandidateReadAnyStatus(p) ==
    /\ req[p].pc = "R_candidate"
    /\ LET r == req[p] IN
       req' = [req EXCEPT ![p] =
           IF \/ ~CandidateExists(r.candidateId)
              \/ candidates[r.candidateId].rescueId # r.rescueId
           THEN Fail(r, 404, "Candidato no encontrado")
           ELSE At(r, "R_update")]
    /\ emitted' = NoEvents
    /\ UNCHANGED <<messages, rescues, candidates, notifications, started, slots, faults,
                   listeners, streams, evaluation, inbox>>

\* findUnique of the candidate, 404, and the pending check
RejectCandidateRead(p) ==
    /\ req[p].pc = "R_candidate"
    /\ LET r == req[p] IN
       req' = [req EXCEPT ![p] =
           IF \/ ~CandidateExists(r.candidateId)
              \/ candidates[r.candidateId].rescueId # r.rescueId
           THEN Fail(r, 404, "Candidato no encontrado")
           ELSE IF candidates[r.candidateId].status # "pending" THEN Fail(r, 400, "Candidato ya evaluado")
           ELSE At(r, "R_update")]
    /\ emitted' = NoEvents
    /\ UNCHANGED <<messages, rescues, candidates, notifications, started, slots, faults,
                   listeners, streams, evaluation, inbox>>

\* rescueCandidate.update({ status: "rejected" })
RejectWrite(p, ok) ==
    /\ req[p].pc = "R_update"
    /\ LET r == req[p] IN
       IF ok
       THEN /\ candidates' = [candidates EXCEPT ![r.candidateId].status = "rejected"]
            /\ req' = [req EXCEPT ![p] = At(r, "R_notify")]
       ELSE /\ candidates' = candidates
            /\ req' = [req EXCEPT ![p] = Respond(r, 500, NULL)]
    /\ emitted' = NoEvents
    /\ UNCHANGED <<messages, rescues, notifications, started, slots, faults,
                   listeners, streams, evaluation, inbox>>

\* rescue_candidate_rejected to the user, or to the team's members and owner
RejectNotify(p, ok) ==
    /\ req[p].pc = "R_notify"
    /\ LET r == req[p] IN
       \E out \in CandidateFanOut(candidates[r.candidateId],
                                  "rescue_candidate_rejected", r.rescueId, ok) :
          LET sent == emitNotifications(streams, out.events) IN
             /\ notifications' = out.table
             /\ streams' = sent.streams
             /\ emitted' = Emits(0, sent.published)
             /\ req' = [req EXCEPT ![p] =
                   Respond(r, IF ok /\ ~sent.thrown THEN 200 ELSE 500, NULL)]
    /\ UNCHANGED <<messages, rescues, candidates, started, slots, faults, listeners, evaluation, inbox>>

\* ---------------------------------------------------- updateResponderLocation
\* mutant: every authenticated user may chat and share on an existing rescue
canChatOrShareAnyUser(rescueId, userId) == RescueExists(rescueId)

canChatOrShare(rescueId, userId) ==
    IF ~RescueExists(rescueId) THEN FALSE
    ELSE IF rescues[rescueId].userId = userId THEN TRUE
    ELSE IF rescues[rescueId].assignedRescuerId = userId THEN TRUE
    ELSE IF rescues[rescueId].assignedTeamId # NULL
    THEN LET membership == isTeamMember(rescues[rescueId].assignedTeamId, userId) IN
         membership.exists /\ membership.isMember
    ELSE FALSE

LocationAccess(p, caller, rescueId, pos) ==
    /\ Begin(p)
    /\ LET r == [NewReq("updateResponderLocation", rescueId) EXCEPT !.pos = pos] IN
       req' = [req EXCEPT ![p] =
           IF rescueId = NaN THEN Fail(r, 400, "ID invalido")
           ELSE IF ~canChatOrShare(rescueId, caller) THEN Fail(r, 403, "No autorizado")
           ELSE At(r, "L_update")]
    /\ emitted' = NoEvents
    /\ UNCHANGED <<messages, rescues, candidates, notifications, listeners, streams, evaluation, inbox>>

\* mutant: the event is published before the update, whether or not it succeeds
LocationWriteEmitsFirst(p, ok) ==
    /\ req[p].pc = "L_update"
    /\ LET r == req[p]
           updated == [rescues[r.rescueId] EXCEPT !.rescuerPos = r.pos]
           sent == emitRescueEvent(RescuePayload("update", r.rescueId, updated)) IN
       /\ rescues' = IF ok THEN [rescues EXCEPT ![r.rescueId] = updated] ELSE rescues
       /\ streams' = sent.streams
       /\ req' = [req EXCEPT ![p] = Respond(r, IF ok THEN 200 ELSE 500, NULL)]
    /\ emitted' = Emits(1, 0)
    /\ UNCHANGED <<messages, candidates, notifications, started, slots, faults,
                   listeners, evaluation, inbox>>

\* prisma.rescue.update({ rescuerLatitude, rescuerLongitude, rescuerUpdatedAt })
LocationWrite(p, ok) ==
    /\ req[p].pc = "L_update"
    /\ LET r == req[p] IN
       IF ok
       THEN LET updated == [rescues[r.rescueId] EXCEPT !.rescuerPos = r.pos]
                sent == emitRescueEvent(RescuePayload("update", r.rescueId, updated)) IN
            /\ rescues' = [rescues EXCEPT ![r.rescueId] = updated]
            /\ streams' = sent.streams
            /\ req' = [req EXCEPT ![p] =
                  Respond(r, IF sent.thrown THEN 500 ELSE 200, NULL)]
       ELSE /\ rescues' = rescues
            /\ streams' = streams
            /\ req' = [req EXCEPT ![p] = Respond(r, 500, NULL)]
    /\ emitted' = IF ok THEN Emits(1, 0) ELSE NoEvents
    /\ UNCHANGED <<messages, candidates, notifications, started, slots, faults,
                   listeners, evaluation, inbox>>

\* ----------------------------------------------------------------- postMessage
\* prisma.message.create data
NewMessage(rescueId, authorId) == [rescueId |-> rescueId, authorId |-> authorId]

\* mutant: the author is not taken out of the recipients
MessageRecipientsWithAuthor(rescueId, access, authorId) ==
    {rescues[rescueId].userId} \cup ResolvedRecipients(access)

\* the rescue's owner, the assigned responder, the assigned team's members and
\* owner, from the row read by canChatOrShare, without the author
MessageRecipients(rescueId, access, authorId) ==
    ({rescues[rescueId].userId} \cup ResolvedRecipients(access)) \ {authorId}

\* validation, canChatOrShare, 403
MessageAccess(p, caller, rescueId) ==
    /\ Begin(p)
    /\ LET r == [NewReq("postMessage", rescueId) EXCEPT !.caller = caller] IN
       req' = [req EXCEPT ![p] =
           IF rescueId = NaN THEN Fail(r, 400, "ID invalido")
           ELSE IF ~canChatOrShare(rescueId, caller) THEN Fail(r, 403, "No autorizado")
           ELSE [At(r, "M_create") EXCEPT !.existing =
                    [NoExisting EXCEPT
                        !.assignedRescuerId = rescues[rescueId].assignedRescuerId,
                        !.assignedTeamId = rescues[rescueId].assignedTeamId]]]
    /\ emitted' = NoEvents
    /\ UNCHANGED <<messages, rescues, candidates, notifications, listeners, streams, evaluation, inbox>>

\* prisma.message.create, and the recipients of rescue_message
MessageCreate(p, ok) ==
    /\ req[p].pc = "M_create"
    /\ LET r == req[p] IN
       IF ok
       THEN /\ messages' = messages (+) SetToBag({NewMessage(r.rescueId, r.caller)})
            /\ req' = [req EXCEPT ![p] =
                  IF MessageRecipients(r.rescueId, r.existing, r.caller) # {}
                  THEN At(r, "M_notify")
                  ELSE Respond(r, 201, NULL)]
       ELSE /\ messages' = messages
            /\ req' = [req EXCEPT ![p] = Respond(r, 500, NULL)]
    /\ emitted' = NoEvents
    /\ UNCHANGED <<rescues, candidates, notifications, started, slots, faults,
                   listeners, streams, evaluation, inbox>>

\* createNotifications(rescue_message batch)
MessageNotify(p, ok) ==
    /\ req[p].pc = "M_notify"
    /\ LET r == req[p] IN
       \E out \in FanOut(MessageRecipients(r.rescueId, r.existing, r.caller),
                         "rescue_message", r.rescueId, ok) :
          LET sent == emitNotifications(streams, out.events) IN
             /\ notifications' = out.table
             /\ streams' = sent.streams
             /\ emitted' = Emits(0, sent.published)
             /\ req' = [req EXCEPT ![p] =
                   Respond(r, IF ok /\ ~sent.thrown THEN 201 ELSE 500, NULL)]
    /\ UNCHANGED <<messages, rescues, candidates, started, slots, faults, listeners, evaluation, inbox>>

\* ------------------------------------------------------------------ GET /stream
\* The queries a rescue stream is asked with: none, a status, a vehicle type
\* that is not in the enum, and a from that is not a date.
StreamQueries ==
    {NoFilters,
     [NoFilters EXCEPT !.status = "accepted"],
     [NoFilters EXCEPT !.vehicleType = "plane"],
     [NoFilters EXCEPT !.from = "invalid-date"]}

\* the users that open a notification stream
StreamUsers == {2, 3}

Without(registered, c) == SelectSeq(registered, LAMBDA x : x # c)

\* a new connection is the lowest one that has not asked for a stream yet
\* (connections are interchangeable)
Connect(c) ==
    /\ streams[c].state = "none"
    /\ \A d \in Conns : d < c => streams[d].state # "none"

\* mutant: buildRescueWhere is not called before the stream is opened
SubscribeRescueUnchecked(c, query, fault) ==
    /\ Connect(c)
    /\ LET parsed == rescueQuerySchema(query) IN
       IF ~parsed.success
       THEN /\ streams' = [streams EXCEPT ![c] = Refused("rescue", 400, "ZodError")]
            /\ listeners' = listeners
       ELSE /\ streams' = [streams EXCEPT ![c] = Opened("rescue", parsed.data, NULL, fault)]
            /\ listeners' = [listeners EXCEPT !.rescue = Append(@, c)]
    /\ emitted' = NoEvents
    /\ UNCHANGED <<rescues, candidates, notifications, req, started, slots,
                   messages, faults, evaluation, inbox>>

\* GET /rescue/stream: safeParse, buildRescueWhere, the headers and the ready
\* event, rescueEvents.on, setInterval
SubscribeRescue(c, query, fault) ==
    /\ Connect(c)
    /\ LET parsed == rescueQuerySchema(query)
           built == buildRescueWhere(parsed.data) IN
       IF ~parsed.success
       THEN /\ streams' = [streams EXCEPT ![c] = Refused("rescue", 400, "ZodError")]
            /\ listeners' = listeners
       ELSE IF built.error # ""
       THEN /\ streams' = [streams EXCEPT ![c] = Refused("rescue", 400, built.error)]
            /\ listeners' = listeners
       ELSE /\ streams' = [streams EXCEPT ![c] = Opened("rescue", parsed.data, NULL, fault)]
            /\ listeners' = [listeners EXCEPT !.rescue = Append(@, c)]
    /\ emitted' = NoEvents
    /\ UNCHANGED <<rescues, candidates, notifications, req, started, slots,
                   messages, faults, evaluation, inbox>>

\* GET /notifications/stream: 401 without a user, the headers and the ready
\* event, notificationEvents.on, setInterval
SubscribeNotifications(c, userId, fault) ==
    /\ Connect(c)
    /\ IF userId = NULL
       THEN /\ streams' = [streams EXCEPT ![c] =
                              Refused("notification", 401, "No autorizado")]
            /\ listeners' = listeners
       ELSE /\ streams' = [streams EXCEPT ![c] =
                              Opened("notification", NoFilters, userId, fault)]
            /\ listeners' = [listeners EXCEPT !.notification = Append(@, c)]
    /\ emitted' = NoEvents
    /\ UNCHANGED <<rescues, candidates, notifications, req, started, slots,
                   messages, faults, evaluation, inbox>>

\* the interval callback of a stream: res.write(": keep-alive")
KeepAlive(c) ==
    /\ streams[c].timer
    /\ emitted' = [NoEvents EXCEPT !.keepAlive = c]
    /\ UNCHANGED <<rescues, candidates, notifications, req, started, slots,
                   messages, faults, listeners, streams, evaluation, inbox>>

\* mutant: the interval is not cleared
CleanupKeepsTimer(registered, table, c) ==
    [listeners |->
        IF table[c].channel = "rescue"
        THEN [registered EXCEPT !.rescue = Without(@, c)]
        ELSE [registered EXCEPT !.notification = Without(@, c)],
     streams |-> table]

\* clearInterval(keepAlive) and off(onRescue / onNotification) of stream c:
\* the listeners and the streams after them
Cleanup(registered, table, c) ==
    [listeners |->
        IF table[c].channel = "rescue"
        THEN [registered EXCEPT !.rescue = Without(@, c)]
        ELSE [registered EXCEPT !.notification = Without(@, c)],
     streams |-> [table EXCEPT ![c].timer = FALSE]]

\* req.on("close"): the cleanup of a stream, run when its connection closes
\* (and, without effect, when it runs again)
Close(c) ==
    /\ streams[c].state \in {"open", "closed"}
    /\ LET after == Cleanup(listeners, streams, c) IN
       /\ listeners' = after.listeners
       /\ streams' = [after.streams EXCEPT ![c].state = "closed"]
    /\ emitted' = NoEvents
    /\ UNCHANGED <<rescues, candidates, notifications, req, started, slots,
                   messages, faults, evaluation, inbox>>

\* no call of the rescueFilters functions
NoEvaluation == [pc |-> "none"]

\* ---------------------------------------------------------- notification routes
\* the Notification table as the notification routes use it: id = index,
\* userId is the recipient, read the flag; and the last request with its
\* response (code, and the count of updateMany)
Inbox(rows) ==
    [rows |-> rows, op |-> "none", caller |-> NULL, id |-> NULL, code |-> 0,
     updated |-> 0]
NoInbox == Inbox(<< >>)

\* the recipients of the rows, the ids asked for, and the user of a request
\* (NULL: req.user has no id)
InboxUsers == {1, 2}
NotificationIdInputs == {NaN, 1, 2, 3, 4}
InboxCallers == {NULL} \cup InboxUsers
InboxRows ==
    UNION {[1..n -> [userId : InboxUsers, read : BOOLEAN]] : n \in 0..3}

\* mutant: the where of updateMany has no userId
markReadAnyUser(rows, notificationId, userId) ==
    LET matched == {i \in DOMAIN rows : i = notificationId} IN
    [rows |-> [i \in DOMAIN rows |->
                  IF i \in matched THEN [rows[i] EXCEPT !.read = TRUE] ELSE rows[i]],
     count |-> Cardinality(matched)]

\* prisma.notification.updateMany({ where: { id, userId }, data: { read: true } })
markRead(rows, notificationId, userId) ==
    LET matched == {i \in DOMAIN rows : i = notificationId /\ rows[i].userId = userId} IN
    [rows |-> [i \in DOMAIN rows |->
                  IF i \in matched THEN [rows[i] EXCEPT !.read = TRUE] ELSE rows[i]],
     count |-> Cardinality(matched)]

\* prisma.notification.updateMany({ where: { userId, read: false }, data: { read: true } })
markAllRead(rows, userId) ==
    LET matched == {i \in DOMAIN rows : rows[i].userId = userId /\ ~rows[i].read} IN
    [rows |-> [i \in DOMAIN rows |->
                  IF i \in matched THEN [rows[i] EXCEPT !.read = TRUE] ELSE rows[i]],
     count |-> Cardinality(matched)]

\* POST /notifications/:id/read
MarkRead(caller, notificationId, ok) ==
    /\ LET r == [Inbox(inbox.rows) EXCEPT !.op = "markRead", !.caller = caller,
                                          !.id = notificationId]
           out == markRead(inbox.rows, notificationId, caller) IN
       inbox' = IF caller = NULL THEN [r EXCEPT !.code = 401]
                ELSE IF notificationId = NaN THEN [r EXCEPT !.code = 400]
                ELSE IF ~ok THEN [r EXCEPT !.code = 500]
                ELSE [r EXCEPT !.rows = out.rows, !.code = 200, !.updated = out.count]
    /\ UNCHANGED <<rescues, candidates, notifications, req, started, slots,
                   messages, emitted, faults, listeners, streams, evaluation>>

\* POST /notifications/read-all
MarkAllRead(caller, ok) ==
    /\ LET r == [Inbox(inbox.rows) EXCEPT !.op = "markAllRead", !.caller = caller]
           out == markAllRead(inbox.rows, caller) IN
       inbox' = IF caller = NULL THEN [r EXCEPT !.code = 401]
                ELSE IF ~ok THEN [r EXCEPT !.code = 500]
                ELSE [r EXCEPT !.rows = out.rows, !.code = 200, !.updated = out.count]
    /\ UNCHANGED <<rescues, candidates, notifications, req, started, slots,
                   messages, emitted, faults, listeners, streams, evaluation>>

\* The store of a fresh deployment.
EmptyStore ==
    [rescues |-> << >>, candidates |-> << >>, notifications |-> EmptyBag]

\* The store after user 1 has filed rescue 1, user 2 has proposed as responder
\* and user 3 has proposed team 1 (createRescue, proposeCandidate twice).
OpenRescueStore ==
    [rescues |-> << NewRescue(1) >>,
     candidates |-> << NewCandidate(1, 2, NULL), NewCandidate(1, 3, 1) >>,
     notifications |->
        NotificationBatch({1}, "rescue_candidate", 1)
        (+) NotificationBatch({1}, "rescue_candidate", 1)]

\* A run starts with no request in flight, from the empty store or from the
\* open rescue above (which the runs from the empty store reach).
Init(n) ==
    /\ \E store \in {EmptyStore, OpenRescueStore} :
          /\ rescues = store.rescues
          /\ candidates = store.candidates
          /\ notifications = store.notifications
    /\ req = [p \in Procs |-> IdleReq]
    /\ started = 0
    /\ slots = n
    /\ messages = EmptyBag
    /\ emitted = NoEvents
    /\ faults = FALSE
    /\ listeners = NoListeners
    /\ streams = [c \in Conns |-> NoStream]
    /\ evaluation = NoEvaluation
    /\ inbox = NoInbox

\* the same, in a run where the notification store calls may throw
InitFaults(n) ==
    /\ \E store \in {EmptyStore, OpenRescueStore} :
          /\ rescues = store.rescues
          /\ candidates = store.candidates
          /\ notifications = store.notifications
    /\ req = [p \in Procs |-> IdleReq]
    /\ started = 0
    /\ slots = n
    /\ messages = EmptyBag
    /\ emitted = NoEvents
    /\ faults = TRUE
    /\ listeners = NoListeners
    /\ streams = [c \in Conns |-> NoStream]
    /\ evaluation = NoEvaluation
    /\ inbox = NoInbox

\* the outcomes of a notification store call in this run
Oks == IF faults THEN BOOLEAN ELSE {TRUE}

\* One step of one request.  The assign transaction may abort, and the
\* notification calls may throw in a run with faults; the other store calls
\* succeed.
Next ==
    \E p \in Procs :
        \/ \E u \in Requesters : CreateRescue(p, u, TRUE)
        \/ \E u \in Users, id \in RescueIdInputs, data \in UpdateInputs :
              UpdateRescueRead(p, u, id, data, FALSE)
        \/ \E u \in Users, id \in RescueIdInputs :
              UpdateRescueRead(p, u, id, [status |-> "resolved", other |-> FALSE], TRUE)
        \/ UpdateRescueWrite(p, TRUE)
        \/ \E ok \in Oks : UpdateRescueNotify(p, ok)
        \/ \E u \in Users, id \in RescueIdInputs, t \in {NULL} \cup TeamIdInputs :
              ProposeRead(p, u, id, t)
        \/ ProposeLookup(p)
        \/ ProposeCreate(p, TRUE)
        \/ \E ok \in Oks : ProposeNotify(p, ok)
        \/ \E u \in Users, id \in RescueIdInputs, c \in CandidateIdInputs :
              AssignRead(p, u, id, c)
        \/ AssignCandidateRead(p)
        \/ \E failAt \in 0..3 : AssignTransaction(p, failAt)
        \/ \E ok \in Oks : AssignNotify(p, ok)
        \/ \E u \in Users, id \in RescueIdInputs, c \in CandidateIdInputs :
              RejectRead(p, u, id, c)
        \/ RejectCandidateRead(p)
        \/ RejectWrite(p, TRUE)
        \/ \E ok \in Oks : RejectNotify(p, ok)
        \/ \E u \in Callers, id \in RescueIdInputs, pos \in Positions :
              LocationAccess(p, u, id, pos)
        \/ LocationWrite(p, TRUE)
        \/ \E u \in Callers, id \in RescueIdInputs : MessageAccess(p, u, id)
        \/ MessageCreate(p, TRUE)
        \/ \E ok \in Oks : MessageNotify(p, ok)

\* two requests in flight at most, interleaved at every await
Spec == Init(2) /\ [][Next]_vars

\* one request at a time: a request starts when the previous one has responded
SpecSeq == Init(1) /\ [][Next]_vars

\* one request at a time, and notification store calls that may throw
SpecFaults == InitFaults(1) /\ [][Next]_vars

\* One step of a stream: a connection opens one, its timer fires, or it
\* closes.
StreamNext ==
    \E c \in Conns :
        \/ \E query \in StreamQueries, fault \in Faults : SubscribeRescue(c, query, fault)
        \/ \E u \in StreamUsers, fault \in Faults : SubscribeNotifications(c, u, fault)
        \/ KeepAlive(c)
        \/ Close(c)

\* One step of one of the requests that publish a rescue event, made by the
\* owner of rescue 1 with ids that exist.  The notification store calls may
\* throw.
PublisherNext ==
    \E p \in Procs :
        \/ \E u \in Requesters : CreateRescue(p, u, TRUE)
        \/ \E u \in Requesters :
              UpdateRescueRead(p, u, 1, [status |-> "resolved", other |-> FALSE], FALSE)
        \/ UpdateRescueWrite(p, TRUE)
        \/ \E ok \in BOOLEAN : UpdateRescueNotify(p, ok)
        \/ \E u \in Requesters, c \in {1, 2} : AssignRead(p, u, 1, c)
        \/ AssignCandidateRead(p)
        \/ AssignTransaction(p, 0)
        \/ \E ok \in BOOLEAN : AssignNotify(p, ok)
        \/ \E u \in Requesters, pos \in Positions : LocationAccess(p, u, 1, pos)
        \/ LocationWrite(p, TRUE)

\* one request at a time, and streams that open and close at any time
SpecStream == Init(1) /\ [][PublisherNext \/ StreamNext]_vars

\* the same, in a run where the listener of a stream may throw
SpecStreamFaults == InitFaults(1) /\ [][PublisherNext \/ StreamNext]_vars

\* One step of one of the requests that publish a rescue event, with every
\* caller and id; any of their store writes may throw.
WriterNext ==
    \E p \in Procs :
        \/ \E u \in Requesters, ok \in BOOLEAN : CreateRescue(p, u, ok)
        \/ \E u \in Users, id \in RescueIdInputs, data \in UpdateInputs :
              UpdateRescueRead(p, u, id, data, FALSE)
        \/ \E u \in Users, id \in RescueIdInputs :
              UpdateRescueRead(p, u, id, [status |-> "resolved", other |-> FALSE], TRUE)
        \/ \E ok \in BOOLEAN : UpdateRescueWrite(p, ok)
        \/ UpdateRescueNotify(p, TRUE)
        \/ \E u \in Users, id \in RescueIdInputs, c \in CandidateIdInputs :
              AssignRead(p, u, id, c)
        \/ AssignCandidateRead(p)
        \/ \E failAt \in 0..3 : AssignTransaction(p, failAt)
        \/ AssignNotify(p, TRUE)
        \/ \E u \in Callers, id \in RescueIdInputs, pos \in Positions :
              LocationAccess(p, u, id, pos)
        \/ \E ok \in BOOLEAN : LocationWrite(p, ok)

\* the same, or a connection opens a rescue stream without filters
PublishNext ==
    \/ WriterNext
    \/ \E c \in Conns : SubscribeRescue(c, NoFilters, "none")

\* one request at a time, store writes that may throw, and rescue streams
\* that take every event
SpecPublish == Init(1) /\ [][PublishNext]_vars

\* the steps of the request in slot p after its first: each is the
\* continuation of an awaited store call
Continue(p) ==
    \/ UpdateRescueWrite(p, TRUE)
    \/ \E ok \in BOOLEAN : UpdateRescueNotify(p, ok)
    \/ AssignCandidateRead(p)
    \/ AssignTransaction(p, 0)
    \/ \E ok \in BOOLEAN : AssignNotify(p, ok)
    \/ LocationWrite(p, TRUE)

\* a connection opens a rescue stream without filters, which takes what is
\* written to it or is gone; or the close handler of a stream runs
SubscriberNext ==
    \E c \in Conns :
        \/ \E fault \in {"none", "gone"} : SubscribeRescue(c, NoFilters, fault)
        \/ Close(c)

\* One request at a time next to subscribers that are gone or close.  A
\* store call that has been awaited settles and the event loop runs its
\* continuation: the steps of a request after the first are weakly fair.
SpecLive ==
    /\ Init(1)
    /\ [][PublisherNext \/ SubscriberNext]_vars
    /\ \A p \in Procs : WF_vars(Continue(p))

\* ------------------------------------------------- calls of the rescueFilters
\* A column of a record that is null.
Null == "null"

\* the records and the filters a call is made with: the rows differ from a
\* filed row in the columns the filters of their family read
FiledRecord == RescueStreamRecord(1, NewRescue(1))

Choice(value) == {Undefined, value}
Column(value) == {Null, value}
Dates == {Undefined, "", "invalid-date", "2025-01-01", "2025-01-03"}
Coordinates == {1, 3}
Timestamps == {1, 2, 3}

\* exact-match fields, each given or not, against columns each set or null
ExactCases ==
    {[record |-> [FiledRecord EXCEPT !.vehicleType = rv, !.drivetrain = rd,
                                     !.terrainType = rt, !.problemType = rp,
                                     !.assistanceStatus = rs, !.assistanceChannel = rc,
                                     !.status = rst],
      filters |-> [NoFilters EXCEPT !.vehicleType = fv, !.drivetrain = fd,
                                    !.terrainType = ft, !.problemType = fp,
                                    !.assistanceStatus = fs, !.assistanceChannel = fc,
                                    !.status = fst]] :
        rv \in Column("suv"), rd \in Column("four_wd"), rt \in Column("sand"),
        rp \in Column("stuck"), rs \in Column("en_route"), rc \in Column("community"),
        rst \in {"pending", "accepted"},
        fv \in Choice("suv"), fd \in Choice("four_wd"), ft \in Choice("sand"),
        fp \in Choice("stuck"), fs \in Choice("en_route"), fc \in Choice("community"),
        fst \in Choice("pending")}

\* from and to, each absent, empty, not a date or a date
DateCases ==
    {[record |-> [FiledRecord EXCEPT !.createdAt = at, !.vehicleType = rv],
      filters |-> [NoFilters EXCEPT !.from = from, !.to = to, !.vehicleType = fv]] :
        at \in Timestamps, rv \in {Null, "car", "suv"},
        from \in Dates, to \in Dates, fv \in Choice("suv")}

\* the four bounds of the box, each absent or given, in either order
BboxCases ==
    {[record |-> [FiledRecord EXCEPT !.latitude = lat, !.longitude = lng,
                                     !.createdAt = at],
      filters |-> [NoFilters EXCEPT !.minLat = minLat, !.maxLat = maxLat,
                                    !.minLng = minLng, !.maxLng = maxLng,
                                    !.to = to]] :
        lat \in 0..4, lng \in 0..4, at \in {1, 3},
        minLat \in {NULL} \cup Coordinates, maxLat \in {NULL} \cup Coordinates,
        minLng \in {NULL} \cup Coordinates, maxLng \in {NULL} \cup Coordinates,
        to \in {Undefined, "2025-01-02"}}

\* the filters with minLat and maxLat and/or minLng and maxLng exchanged
SwapBbox(filters, lats, lngs) ==
    [filters EXCEPT
        !.minLat = IF lats THEN filters.maxLat ELSE @,
        !.maxLat = IF lats THEN filters.minLat ELSE @,
        !.minLng = IF lngs THEN filters.maxLng ELSE @,
        !.maxLng = IF lngs THEN filters.minLng ELSE @]

\* a call that has its arguments: the record, the filters, and the filters
\* with the bounds of the box exchanged
NewEvaluation(record, filters, swapped) ==
    [pc |-> "input", record |-> record, filters |-> filters, swapped |-> swapped,
     built |-> [error |-> "", where |-> NoWhere],
     builtSwapped |-> [error |-> "", where |-> NoWhere],
     matches |-> FALSE, matchesSwapped |-> FALSE]

\* buildRescueWhere(filters), and the same of the exchanged filters
BuildWhere ==
    /\ evaluation.pc = "input"
    /\ evaluation' = [evaluation EXCEPT
                         !.pc = "built",
                         !.built = buildRescueWhere(evaluation.filters),
                         !.builtSwapped = buildRescueWhere(evaluation.swapped)]
    /\ UNCHANGED <<rescues, candidates, notifications, req, started, slots,
                   messages, emitted, faults, listeners, streams, inbox>>

\* matchesStreamFilters(record, filters), and the same of the exchanged filters
Match ==
    /\ evaluation.pc = "built"
    /\ evaluation' = [evaluation EXCEPT
                         !.pc = "matched",
                         !.matches = matchesStreamFilters(evaluation.record,
                                                          evaluation.filters),
                         !.matchesSwapped = matchesStreamFilters(evaluation.record,
                                                                 evaluation.swapped)]
    /\ UNCHANGED <<rescues, candidates, notifications, req, started, slots,
                   messages, emitted, faults, listeners, streams, inbox>>

\* no request and no stream; one call of the two functions with arguments of
\* one of the families
InitFilters ==
    /\ rescues = EmptyStore.rescues
    /\ candidates = EmptyStore.candidates
    /\ notifications = EmptyStore.notifications
    /\ req = [p \in Procs |-> IdleReq]
    /\ started = 0
    /\ slots = 1
    /\ messages = EmptyBag
    /\ emitted = NoEvents
    /\ faults = FALSE
    /\ listeners = NoListeners
    /\ streams = [c \in Conns |-> NoStream]
    /\ \E case \in ExactCases \cup DateCases \cup BboxCases, lats \in BOOLEAN, lngs \in BOOLEAN :
          evaluation = NewEvaluation(case.record, case.filters,
                                     SwapBbox(case.filters, lats, lngs))
    /\ inbox = NoInbox

FilterNext == BuildWhere \/ Match

\* the two functions of rescueFilters, called once with bounded arguments
SpecFilters == InitFilters /\ [][FilterNext]_vars

\* no rescue request and no stream; the Notification table holds up to three
\* rows, read or unread
InitRead ==
    /\ rescues = EmptyStore.rescues
    /\ candidates = EmptyStore.candidates
    /\ notifications = EmptyStore.notifications
    /\ req = [p \in Procs |-> IdleReq]
    /\ started = 0
    /\ slots = 1
    /\ messages = EmptyBag
    /\ emitted = NoEvents
    /\ faults = FALSE
    /\ listeners = NoListeners
    /\ streams = [c \in Conns |-> NoStream]
    /\ evaluation = NoEvaluation
    /\ \E rows \in InboxRows : inbox = Inbox(rows)

\* one request of the notification routes (each is one store call)
ReadNext ==
    \/ \E u \in InboxCallers, id \in NotificationIdInputs, ok \in BOOLEAN :
          MarkRead(u, id, ok)
    \/ \E u \in InboxCallers, ok \in BOOLEAN : MarkAllRead(u, ok)

\* markRead and markAllRead requests, one after another
SpecRead == InitRead /\ [][ReadNext]_vars

\* ===================================================================== claims
CandidatesOf(r) == {c \in DOMAIN candidates : candidates[c].rescueId = r}

HasAssignment(rescue) ==
    rescue.assignedRescuerId # NULL \/ rescue.assignedTeamId # NULL

\* the slot's request takes a step
Steps(p) == req'[p] # req[p]

\* the assign transaction of the request in slot p commits
Commits(p) == req[p].pc = "A_transaction" /\ req'[p].pc = "A_notify"

\* C1: in every store state each rescue has at most one accepted candidate,
\* whatever the interleaving of propose, assign and reject requests.
C1_AtMostOneAccepted ==
    \A r \in DOMAIN rescues :
        Cardinality({c \in CandidatesOf(r) : candidates[c].status = "accepted"}) <= 1

\* two assignments naming different candidates of one rescue have both
\* committed while both requests were in flight
C1_Witness ==
    /\ req[1].pc = "A_notify" /\ req[2].pc = "A_notify"
    /\ req[1].rescueId = req[2].rescueId
    /\ req[1].candidateId # req[2].candidateId

\* C2: the commit of assignCandidate(R, B) leaves B accepted, every other
\* candidate of R rejected, R accepted and assigned to B's user or B's team
\* with the other assignment field empty, and the candidates of the other
\* rescues as they were.
C2_AssignPostcondition ==
    [][\A p \in Procs : Commits(p) =>
        LET R == req[p].rescueId
            B == req[p].candidateId IN
        /\ DOMAIN candidates' = DOMAIN candidates
        /\ candidates'[B].status = "accepted"
        /\ \A c \in DOMAIN candidates \ {B} :
              IF candidates[c].rescueId = R
              THEN candidates'[c].status = "rejected"
              ELSE candidates'[c] = candidates[c]
        /\ rescues'[R].status = "accepted"
        /\ IF candidates[B].teamId = NULL
           THEN /\ rescues'[R].assignedRescuerId = candidates[B].userId
                /\ rescues'[R].assignedRescuerId # NULL
                /\ rescues'[R].assignedTeamId = NULL
           ELSE /\ rescues'[R].assignedTeamId = candidates[B].teamId
                /\ rescues'[R].assignedRescuerId = NULL
    ]_vars

\* an assignment has just committed: B is accepted, another candidate of the
\* rescue is rejected, and a candidate of another rescue is still pending
C2_Witness ==
    \E p \in Procs :
        /\ req[p].pc = "A_notify"
        /\ candidates[req[p].candidateId].status = "accepted"
        /\ rescues[req[p].rescueId].status = "accepted"
        /\ \E c \in CandidatesOf(req[p].rescueId) : candidates[c].status = "rejected"
        /\ \E c \in DOMAIN candidates :
              candidates[c].rescueId # req[p].rescueId /\ candidates[c].status = "pending"

\* C3: the three writes of the assign transaction are applied together or
\* not at all: a step of the transaction never leaves only some of them in
\* the store, and when the transaction fails the store is as before.
C3_TransactionAtomic ==
    [][\A p \in Procs : (req[p].pc = "A_transaction" /\ Steps(p)) =>
        LET R == req[p].rescueId
            B == req[p].candidateId
            chosenAccepted == candidates'[B].status = "accepted"
            othersRejected ==
                \A c \in CandidatesOf(R) \ {B} : candidates'[c].status = "rejected"
            rescueAssigned ==
                /\ rescues'[R].status = "accepted"
                /\ rescues'[R].assignedRescuerId = candidates[B].userId
                /\ rescues'[R].assignedTeamId = candidates[B].teamId
            untouched == rescues' = rescues /\ candidates' = candidates IN
        /\ untouched \/ (chosenAccepted /\ othersRejected /\ rescueAssigned)
        /\ req'[p].pc # "A_notify" => (untouched /\ req'[p].code = 500)
    ]_vars

\* one assign transaction was rolled back (its request answered 500) next
\* to one that committed, and the rescue shows the committed one whole
C3_Witness ==
    \E p, q \in Procs :
        /\ req[p].op = "assignCandidate" /\ req[p].pc = "done" /\ req[p].code = 500
        /\ req[q].pc = "A_notify"
        /\ rescues[req[q].rescueId].status = "accepted"
        /\ candidates[req[q].candidateId].status = "accepted"

\* C4: an assignCandidate on a rescue that already has an assignment does
\* not succeed, and leaves the rescue's status and assignment and the status
\* of its candidates as the first assignment left them.
C4_SecondAssignConflicts ==
    [][\A p \in Procs :
        (/\ req[p].pc = "A_transaction" /\ Steps(p)
         /\ HasAssignment(rescues[req[p].rescueId])) =>
        LET R == req[p].rescueId IN
        /\ req'[p].pc # "A_notify"
        /\ rescues'[R].status = rescues[R].status
        /\ rescues'[R].assignedRescuerId = rescues[R].assignedRescuerId
        /\ rescues'[R].assignedTeamId = rescues[R].assignedTeamId
        /\ \A c \in CandidatesOf(R) : candidates'[c].status = candidates[c].status
    ]_vars

\* C5: no rescue ever has both assignedRescuerId and assignedTeamId set.
C5_AssignmentExclusive ==
    \A r \in DOMAIN rescues :
        ~(rescues[r].assignedRescuerId # NULL /\ rescues[r].assignedTeamId # NULL)

\* a rescue assigned to a team, whose responder position has been updated
C5_Witness ==
    \E r \in DOMAIN rescues :
        /\ rescues[r].assignedTeamId # NULL
        /\ rescues[r].assignedRescuerId = NULL
        /\ rescues[r].rescuerPos # NULL

\* C6: a rescue whose status is resolved keeps that status in every step.
C6_ResolvedIsTerminal ==
    [][\A r \in DOMAIN rescues :
        rescues[r].status = "resolved" => rescues'[r].status = "resolved"]_vars

\* C7: a rescue's status becomes accepted only in the commit of an assign
\* transaction on it, which sets its assignment in the same step.
C7_AcceptedOnlyByAssignment ==
    [][\A r \in DOMAIN rescues :
        (rescues[r].status # "accepted" /\ rescues'[r].status = "accepted") =>
            /\ \E p \in Procs : Commits(p) /\ req[p].rescueId = r
            /\ HasAssignment(rescues'[r])]_vars

\* the users a rescue is assigned to: the responder, or the assigned team's
\* members and owner
AssignedParty(rescue) ==
    (IF rescue.assignedRescuerId # NULL THEN {rescue.assignedRescuerId} ELSE {})
    \cup (IF rescue.assignedTeamId \in Teams
          THEN TeamMemberIds[rescue.assignedTeamId] \cup {TeamOwnerId[rescue.assignedTeamId]}
          ELSE {})

ResolvedCount(r, u) == CopiesIn(Notification(u, "rescue_resolved", r), notifications)

\* the request in slot p applies updateRescue(status = resolved) to the store
WritesResolved(p) ==
    req[p].pc = "U_update" /\ Steps(p) /\ req[p].data.status = "resolved"

\* C8: with one request at a time, updateRescue(status = resolved) on an
\* assigned rescue whose stored status is not resolved creates one
\* rescue_resolved notification per assigned user, and on a rescue whose
\* stored status is already resolved it creates none; nothing else creates a
\* rescue_resolved notification.
C8_ResolveTwiceOneBatch ==
    [][/\ \A p \in Procs :
            LET R == req[p].rescueId IN
            /\ (WritesResolved(p) /\ AssignedParty(rescues[R]) # {}) =>
                  IF rescues[R].status # "resolved"
                  THEN req'[p].pc = "U_notify" /\ notifications' = notifications
                  ELSE req'[p].pc = "done" /\ notifications' = notifications
            /\ (req[p].pc = "U_notify" /\ Steps(p)) =>
                  /\ req'[p].pc = "done"
                  /\ notifications' = notifications (+)
                        SetToBag({Notification(u, "rescue_resolved", R) :
                                     u \in AssignedParty(rescues[R])})
       /\ \A r \in DOMAIN rescues, u \in Users :
            ResolvedCount(r, u)' # ResolvedCount(r, u) =>
                \E p \in Procs : req[p].pc = "U_notify" /\ req[p].rescueId = r
    ]_vars

\* a second updateRescue(status = resolved) has read the rescue as resolved
\* after the first one created its batch of one notification
C8_Witness ==
    \E p \in Procs :
        /\ req[p].pc = "U_update"
        /\ req[p].data.status = "resolved"
        /\ req[p].existing.status = "resolved"
        /\ rescues[req[p].rescueId].status = "resolved"
        /\ AssignedParty(rescues[req[p].rescueId]) # {}
        /\ \A u \in AssignedParty(rescues[req[p].rescueId]) :
              ResolvedCount(req[p].rescueId, u) = 1

\* C9: an updateRescue(status = resolved) whose write is applied when the
\* stored status is already resolved (another request resolved the rescue
\* after this one read it) creates no further rescue_resolved batch.
C9_NoDuplicateResolvedBatch ==
    [][\A p \in Procs :
        (WritesResolved(p) /\ rescues[req[p].rescueId].status = "resolved") =>
            req'[p].pc # "U_notify"]_vars

\* the candidates of rescue r proposed by the caller (no teamId) or for the team
PriorProposals(r, caller, teamId) ==
    {c \in CandidatesOf(r) :
        IF teamId # NULL THEN candidates[c].teamId = teamId
                         ELSE candidates[c].userId = caller}

\* C10: with one request at a time, a proposeCandidate by a user or for a
\* team that has proposed for the rescue before answers 200 with the
\* candidate of the first proposal and creates no candidate and no
\* notification.
C10_ProposeIdempotent ==
    [][\A p \in Procs :
        LET prior == PriorProposals(req[p].rescueId, req[p].caller, req[p].teamId) IN
        (req[p].pc = "P_lookup" /\ Steps(p) /\ prior # {}) =>
            /\ req'[p].pc = "done"
            /\ req'[p].code = 200
            /\ req'[p].result \in prior
            /\ \A c \in prior : req'[p].result <= c
            /\ candidates' = candidates
            /\ notifications' = notifications
    ]_vars

\* a repeated proposal has been answered 200 with an existing candidate
C10_Witness ==
    \E p \in Procs :
        /\ req[p].op = "proposeCandidate"
        /\ req[p].pc = "done"
        /\ req[p].code = 200
        /\ req[p].result \in DOMAIN candidates

\* C11: for each rescue no two candidates name the same responding user and
\* no two name the same responding team, also when two proposals for the
\* same (rescue, user) or (rescue, team) are interleaved.
C11_UniqueProposal ==
    \A c, d \in DOMAIN candidates :
        (c # d /\ candidates[c].rescueId = candidates[d].rescueId) =>
            /\ ~(candidates[c].userId # NULL /\ candidates[c].userId = candidates[d].userId)
            /\ ~(candidates[c].teamId # NULL /\ candidates[c].teamId = candidates[d].teamId)

\* the rescue is resolved or has an assignment
Closed(rescue) == rescue.status = "resolved" \/ HasAssignment(rescue)

\* the step published no event
Silent == emitted' = NoEvents

\* the step wrote no row of any table
NoWrite ==
    /\ rescues' = rescues
    /\ candidates' = candidates
    /\ notifications' = notifications
    /\ messages' = messages

\* the request in slot p has been answered with this status code
Answered(p, code) == req'[p].pc = "done" /\ req'[p].code = code

\* the step is the first step of a request of this route, in slot p
Starts(p, op) ==
    /\ started' # started
    /\ Free(p)
    /\ \A q \in Procs : q < p => ~Free(q)
    /\ req'[p].op = op

\* C12: a proposeCandidate on a rescue that is resolved or assigned is
\* answered 400 "Rescate no disponible" at once: the request ends there,
\* having created no candidate and no notification.
C12_ProposeUnavailable ==
    [][\A p \in Procs : Starts(p, "proposeCandidate") =>
       \A u \in Users, id \in DOMAIN rescues, t \in {NULL} \cup TeamIdInputs :
        (Closed(rescues[id]) /\ ProposeRead(p, u, id, t)) =>
            /\ Answered(p, 400)
            /\ req'[p].error = "Rescate no disponible"
            /\ NoWrite
    ]_vars

\* a proposal has been refused as unavailable
C12_Witness ==
    \E p \in Procs :
        /\ req[p].op = "proposeCandidate"
        /\ req[p].pc = "done"
        /\ req[p].code = 400
        /\ req[p].error = "Rescate no disponible"
        /\ \E r \in DOMAIN rescues : Closed(rescues[r])

\* the messages an input validation answers with
ValidationErrors == {"ID invalido", "ZodError", "Sin campos para actualizar"}

\* C13: updateRescue, assignCandidate and rejectCandidate by a caller who is
\* not the rescue's owner are answered 403 and write no row and publish no
\* event; a request refused by input validation (of any route) writes no row
\* and publishes no event either.
C13_NotOwnerForbidden ==
    [][\A p \in Procs :
        /\ Starts(p, "updateRescue") =>
              \A u \in Users, id \in DOMAIN rescues, data \in UpdateInputs \ {NoData} :
                 (rescues[id].userId # u /\ UpdateRescueRead(p, u, id, data, FALSE)) =>
                    (Answered(p, 403) /\ NoWrite /\ Silent)
        /\ Starts(p, "assignCandidate") =>
              \A u \in Users, c \in CandidateIdInputs :
                 /\ \A id \in DOMAIN rescues :
                       (c # NaN /\ rescues[id].userId # u /\ AssignRead(p, u, id, c)) =>
                          (Answered(p, 403) /\ NoWrite /\ Silent)
                 /\ AssignRead(p, u, NaN, c) => (Answered(p, 400) /\ NoWrite /\ Silent)
        /\ Starts(p, "rejectCandidate") =>
              \A u \in Users, c \in CandidateIdInputs :
                 /\ \A id \in DOMAIN rescues :
                       (c # NaN /\ rescues[id].userId # u /\ RejectRead(p, u, id, c)) =>
                          (Answered(p, 403) /\ NoWrite /\ Silent)
                 /\ RejectRead(p, u, NaN, c) => (Answered(p, 400) /\ NoWrite /\ Silent)
        /\ (started' # started /\ req'[p].error \in ValidationErrors /\ req'[p] # req[p]) =>
              (Answered(p, 400) /\ NoWrite /\ Silent)
    ]_vars

\* an assignCandidate by a user who does not own the rescue was answered 403
\* while the rescue has pending candidates to accept
C13_Witness ==
    \E p \in Procs :
        /\ req[p].op = "assignCandidate"
        /\ req[p].pc = "done"
        /\ req[p].code = 403
        /\ \E c \in DOMAIN candidates : candidates[c].status = "pending"

\* the users who may chat and share on the rescue: its owner, the assigned
\* responder, the members and the owner of the assigned team
MayChatOrShare(rescue) == {rescue.userId} \cup AssignedParty(rescue)

\* C14: updateResponderLocation and postMessage by a caller who is not the
\* owner, the assigned responder or in the assigned team (or on a rescue that
\* does not exist) are answered 403, write no row and publish no event; by a
\* caller who is one of them they go on to their write.
C14_ChatShareAccess ==
    [][\A p \in Procs :
        (Starts(p, "updateResponderLocation") \/ Starts(p, "postMessage")) =>
           \A u \in Callers, id \in RescueIdInputs \ {NaN} :
              LET allowed == id \in DOMAIN rescues /\ u \in MayChatOrShare(rescues[id]) IN
              /\ \A pos \in Positions :
                    LocationAccess(p, u, id, pos) =>
                       IF allowed THEN req'[p].pc = "L_update"
                       ELSE Answered(p, 403) /\ NoWrite /\ Silent
              /\ MessageAccess(p, u, id) =>
                       IF allowed THEN req'[p].pc = "M_create"
                       ELSE Answered(p, 403) /\ NoWrite /\ Silent
    ]_vars

\* a location update or a message was refused while every rescue in the
\* store is assigned
C14_Witness ==
    /\ rescues # << >>
    /\ \A r \in DOMAIN rescues : HasAssignment(rescues[r])
    /\ \E p \in Procs :
          /\ req[p].op \in {"updateResponderLocation", "postMessage"}
          /\ req[p].code = 403

\* C15: an updateRescue with an unknown field or with no field is answered
\* 400 by the validation, whether or not the rescue exists and whoever
\* calls, writes no row and publishes no event.
C15_UpdateValidation ==
    [][\A p \in Procs : Starts(p, "updateRescue") =>
       \A u \in Users, id \in RescueIdInputs \ {NaN} :
        /\ \A data \in UpdateInputs :
              UpdateRescueRead(p, u, id, data, TRUE) =>
                 (Answered(p, 400) /\ req'[p].error = "ZodError" /\ NoWrite /\ Silent)
        /\ UpdateRescueRead(p, u, id, NoData, FALSE) =>
                 (Answered(p, 400) /\ req'[p].error = "Sin campos para actualizar"
                  /\ NoWrite /\ Silent)
    ]_vars

\* an update without fields was answered 400 while the store holds no rescue
C15_Witness ==
    /\ rescues = << >>
    /\ \E p \in Procs :
          /\ req[p].op = "updateRescue"
          /\ req[p].code = 400
          /\ req[p].error = "Sin campos para actualizar"

\* C16: rejectCandidate by the owner, on a candidate of the rescue read as
\* pending, sets that candidate's status to rejected and changes no other
\* row; on a candidate read as accepted or rejected it is answered 400 and
\* writes nothing.
C16_RejectPendingOnly ==
    [][\A p \in Procs :
        LET R == req[p].rescueId
            B == req[p].candidateId IN
        /\ (/\ req[p].pc = "R_candidate" /\ Steps(p)
            /\ B \in DOMAIN candidates /\ candidates[B].rescueId = R) =>
              /\ NoWrite
              /\ IF candidates[B].status = "pending"
                 THEN req'[p].pc = "R_update"
                 ELSE Answered(p, 400) /\ req'[p].error = "Candidato ya evaluado"
        /\ (req[p].pc = "R_update" /\ Steps(p)) =>
              /\ candidates' = [candidates EXCEPT ![B].status = "rejected"]
              /\ rescues' = rescues
              /\ notifications' = notifications
              /\ messages' = messages
        /\ (req[p].pc = "R_notify" /\ Steps(p)) =>
              (rescues' = rescues /\ candidates' = candidates)
    ]_vars

\* a rejectCandidate on a candidate that is not pending was answered 400,
\* and that candidate is still accepted
C16_Witness ==
    \E p \in Procs :
        /\ req[p].op = "rejectCandidate"
        /\ req[p].pc = "done"
        /\ req[p].error = "Candidato ya evaluado"
        /\ \E c \in DOMAIN candidates : candidates[c].status = "accepted"

\* the users a candidacy stands for: the user, or the team's members and owner
CandidateParty(candidate) ==
    IF candidate.userId # NULL THEN {candidate.userId}
    ELSE IF candidate.teamId \in Teams
    THEN TeamMemberIds[candidate.teamId] \cup {TeamOwnerId[candidate.teamId]}
    ELSE {}

NotificationCount(u, type, r) == CopiesIn(Notification(u, type, r), notifications)

\* C17: with one request at a time, when an assignCandidate has finished
\* with 200, every other candidate of the rescue that is rejected has had a
\* rescue_candidate_rejected notification created for each user it stands
\* for.
C17_RejectedNotified ==
    [][\A p \in Procs :
        (req[p].pc = "A_notify" /\ Steps(p) /\ Answered(p, 200)) =>
            \A c \in CandidatesOf(req[p].rescueId) \ {req[p].candidateId} :
                candidates[c].status = "rejected" =>
                    \A u \in CandidateParty(candidates[c]) :
                        NotificationCount(u, "rescue_candidate_rejected", req[p].rescueId)' >= 1
    ]_vars

\* C18: an assignCandidate publishes one rescue event, at its commit, and
\* none in its other steps, and its notification step creates one
\* rescue_assigned notification, with one notification event, for the
\* winning user or for each distinct user among the winning team's members
\* and owner.
C18_AssignedNotifiedOnce ==
    [][\A p \in Procs :
        LET R == req[p].rescueId
            B == req[p].candidateId IN
        /\ Starts(p, "assignCandidate") => Silent
        /\ (req[p].pc = "A_candidate" /\ Steps(p)) => Silent
        /\ Commits(p) => emitted' = Emits(1, 0)
        /\ (req[p].pc = "A_notify" /\ Steps(p)) =>
              LET party == CandidateParty(candidates[B]) IN
              /\ Answered(p, 200)
              /\ notifications' = notifications (+)
                    SetToBag({Notification(u, "rescue_assigned", R) : u \in party})
              /\ emitted' = Emits(0, Cardinality(party))
    ]_vars

\* a team assignment has finished: the team's owner, who is also in its
\* member rows, and the other member have one rescue_assigned each
C18_Witness ==
    \E p \in Procs, r \in DOMAIN rescues :
        /\ req[p].op = "assignCandidate" /\ req[p].pc = "done" /\ req[p].code = 200
        /\ rescues[r].assignedTeamId \in Teams
        /\ TeamOwnerId[rescues[r].assignedTeamId] \in TeamMemberIds[rescues[r].assignedTeamId]
        /\ \A u \in AssignedParty(rescues[r]) : NotificationCount(u, "rescue_assigned", r) = 1

\* the request in slot p is at a createNotifications call
AtBatch(p) ==
    \/ req[p].pc \in {"U_notify", "M_notify"}
    \/ /\ req[p].pc \in {"A_notify", "R_notify"}
       /\ candidates[req[p].candidateId].userId = NULL

\* the rows that call is to create
BatchOf(p) ==
    LET r == req[p] IN
    IF r.pc = "U_notify"
    THEN {Notification(u, "rescue_resolved", r.rescueId) :
             u \in ResolvedRecipients(r.existing)}
    ELSE IF r.pc = "M_notify"
    THEN {Notification(u, "rescue_message", r.rescueId) :
             u \in MessageRecipients(r.rescueId, r.existing, r.caller)}
    ELSE {Notification(u, IF r.pc = "A_notify" THEN "rescue_assigned"
                                              ELSE "rescue_candidate_rejected",
                       r.rescueId) :
             u \in CandidateParty(candidates[r.candidateId])}

\* C19: a createNotifications call either persists every row of its batch
\* and publishes one notification event per row, or (a create throws)
\* persists no row of the batch and publishes no notification event.
C19_BatchAllOrNothing ==
    [][\A p \in Procs : (AtBatch(p) /\ Steps(p)) =>
        \/ /\ notifications' = notifications (+) SetToBag(BatchOf(p))
           /\ emitted' = Emits(0, Cardinality(BatchOf(p)))
           /\ req'[p].code # 500
        \/ /\ notifications' = notifications
           /\ emitted' = NoEvents
           /\ Answered(p, 500)
    ]_vars

\* the rescue_resolved batch for the two users of the assigned team failed:
\* the update was answered 500 and neither of them has a row
C19_Witness ==
    \E p \in Procs, r \in DOMAIN rescues :
        /\ req[p].op = "updateRescue" /\ req[p].pc = "done" /\ req[p].code = 500
        /\ rescues[r].status = "resolved"
        /\ rescues[r].assignedTeamId \in Teams
        /\ Cardinality(AssignedParty(rescues[r])) >= 2
        /\ \A u \in AssignedParty(rescues[r]) : NotificationCount(u, "rescue_resolved", r) = 0

\* C20: when the notification call of updateRescue, assignCandidate,
\* rejectCandidate, proposeCandidate or postMessage throws, the request is
\* answered 500 and the rescue, candidate and message rows stay as the
\* request's own write left them.
C20_FanOutFailureKeepsState ==
    [][\A p \in Procs :
        (/\ req[p].pc \in {"U_notify", "A_notify", "R_notify", "P_notify", "M_notify"}
         /\ Steps(p) /\ Answered(p, 500)) =>
            LET r == req[p] IN
            /\ rescues' = rescues /\ candidates' = candidates /\ messages' = messages
            /\ r.pc = "U_notify" => rescues'[r.rescueId].status = "resolved"
            /\ r.pc = "A_notify" =>
                  /\ candidates'[r.candidateId].status = "accepted"
                  /\ rescues'[r.rescueId].status = "accepted"
                  /\ HasAssignment(rescues'[r.rescueId])
            /\ r.pc = "R_notify" => candidates'[r.candidateId].status = "rejected"
            /\ r.pc = "P_notify" =>
                  /\ r.result \in DOMAIN candidates'
                  /\ candidates'[r.result].rescueId = r.rescueId
            /\ r.pc = "M_notify" =>
                  CopiesIn(NewMessage(r.rescueId, r.caller), messages') >= 1
    ]_vars

\* an assignment was answered 500 after its transaction committed: the
\* rescue is assigned and accepted, and nobody has a rescue_assigned row
C20_Witness ==
    \E p \in Procs, r \in DOMAIN rescues :
        /\ req[p].op = "assignCandidate" /\ req[p].pc = "done" /\ req[p].code = 500
        /\ rescues[r].status = "accepted"
        /\ HasAssignment(rescues[r])
        /\ \A u \in AssignedParty(rescues[r]) : NotificationCount(u, "rescue_assigned", r) = 0

\* ------------------------------------------------------------------------ C21
\* what a step has written to stream c
NewlyWritten(c) ==
    SubSeq(streams'[c].written, Len(streams[c].written) + 1, Len(streams'[c].written))

\* the notification rows a step has created
CreatedRows == notifications' (-) notifications

\* C21: every notification event a step publishes, and every one it writes
\* to a notification stream, is a row that the same step has created before:
\* a step publishes no more notification events than it has created rows, and
\* what it writes to a notification stream is among the rows it has created.
C21_EmitAfterPersist ==
    [][/\ emitted'.notification <= BagCardinality(CreatedRows)
       /\ \A c \in Conns :
             streams'[c].channel = "notification" =>
                \A i \in 1..Len(NewlyWritten(c)) :
                    BagIn(NewlyWritten(c)[i], CreatedRows)]_vars

\* a notification stream has been written a rescue_assigned event whose row
\* is in the table
C21_Witness ==
    \E c \in Conns :
        /\ streams[c].channel = "notification"
        /\ streams[c].written # << >>
        /\ streams[c].written[1].type = "rescue_assigned"
        /\ BagIn(streams[c].written[1], notifications)

\* ------------------------------------------------------------------------ C22
\* a row satisfies a where-clause: every column with a condition has the value
\* asked for, or lies within the bounds that are set
InRange(value, range) ==
    /\ range.gte = NULL \/ value >= range.gte
    /\ range.lte = NULL \/ value <= range.lte

SatisfiesWhere(record, where) ==
    /\ where.vehicleType \in {Undefined, record.vehicleType}
    /\ where.drivetrain \in {Undefined, record.drivetrain}
    /\ where.terrainType \in {Undefined, record.terrainType}
    /\ where.problemType \in {Undefined, record.problemType}
    /\ where.assistanceStatus \in {Undefined, record.assistanceStatus}
    /\ where.assistanceChannel \in {Undefined, record.assistanceChannel}
    /\ where.status \in {Undefined, record.status}
    /\ InRange(record.createdAt, where.createdAt)
    /\ InRange(record.latitude, where.latitude)
    /\ InRange(record.longitude, where.longitude)

\* the rescue event of a step that publishes one: "create" with the new row
\* for createRescue, "update" with the request's row as it is after the step
\* for the others
PublishedRescue ==
    LET created == Len(rescues') > Len(rescues)
        p == CHOOSE q \in Procs : req'[q] # req[q]
        id == IF created THEN Len(rescues') ELSE req[p].rescueId IN
    [type |-> IF created THEN "create" ELSE "update",
     rescue |-> RescueStreamRecord(id, rescues'[id])]

\* C22: a rescue stream is written exactly the events published while it is
\* registered whose row satisfies its filters, in the order they are
\* published: a step that publishes a rescue event appends it to every
\* registered stream whose filters the row satisfies and to no other, and no
\* other step writes an event to a rescue stream (none before it has
\* registered, none after it has closed).
C22_FilteredSubsequence ==
    [][\A c \in Conns :
          streams'[c].channel = "rescue" =>
             IF streams[c].state = "open" /\ emitted'.rescue = 1
             THEN streams'[c].written =
                     streams[c].written \o
                        (IF SatisfiesWhere(PublishedRescue.rescue,
                                           buildRescueWhere(streams[c].filters).where)
                         THEN << PublishedRescue >> ELSE << >>)
             ELSE streams'[c].written = streams[c].written]_vars

\* of two registered rescue streams the one without filters has been written
\* the create of rescue 2 and its assignment, the one that asks for accepted
\* rescues the assignment only
C22_Witness ==
    \E c, d \in Conns :
        /\ streams[c].state = "open" /\ streams[c].channel = "rescue"
        /\ streams[d].state = "open" /\ streams[d].channel = "rescue"
        /\ streams[c].filters = NoFilters
        /\ streams[d].filters.status = "accepted"
        /\ Len(streams[c].written) = 2
        /\ streams[c].written[1].type = "create"
        /\ streams[c].written[2].rescue.status = "accepted"
        /\ streams[d].written = << streams[c].written[2] >>

\* ------------------------------------------------------------------------ C23
\* stream c is registered for rescue events and its filters let the row pass
Subscribed(c, record) ==
    /\ streams[c].state = "open"
    /\ streams[c].channel = "rescue"
    /\ SatisfiesWhere(record, buildRescueWhere(streams[c].filters).where)

\* C23: when a step publishes a rescue event, every registered stream whose
\* filters the row satisfies and whose own listener does not fail is written
\* the event, whether or not the listener of another stream throws.
C23_DeliveryIsolated ==
    [][emitted'.rescue = 1 =>
          \A c \in Conns :
              Subscribed(c, PublishedRescue.rescue) /\ streams[c].fault = "none" =>
                 streams'[c].written = Append(streams[c].written, PublishedRescue)]_vars

\* ------------------------------------------------------------------------ C24
\* the request slot that takes the step
Stepper(p) ==
    IF started' # started
    THEN Free(p) /\ \A q \in Procs : q < p => ~Free(q)
    ELSE req'[p] # req[p]

\* C24: a step that has committed its write and published the rescue event
\* (createRescue, updateRescue, assignCandidate, updateResponderLocation)
\* does not answer 500, whether or not the listener of a stream throws.
C24_DeliveryFailureNotRaised ==
    [][emitted'.rescue = 1 =>
          \A p \in Procs :
              Stepper(p) => ~(req'[p].pc = "done" /\ req'[p].code = 500)]_vars

\* ------------------------------------------------------------------------ C25
\* stream c has a listener on one of the two emitters
Registered(registered, c) ==
    \/ \E i \in DOMAIN registered.rescue : registered.rescue[i] = c
    \/ \E i \in DOMAIN registered.notification : registered.notification[i] = c

\* C25: a stream that has closed has no listener and no timer, and from then
\* on nothing is written to it, neither an event nor a keep-alive; running
\* its cleanup again changes neither the listeners nor the streams; and the
\* step that closes it leaves the other streams, their listeners and their
\* timers as they are.
C25_DisconnectCleansUp ==
    [][\A c \in Conns :
          /\ streams'[c].state = "closed" =>
                /\ ~streams'[c].timer
                /\ ~Registered(listeners', c)
          /\ streams[c].state = "closed" =>
                /\ streams'[c] = streams[c]
                /\ emitted'.keepAlive # c
                /\ Cleanup(listeners, streams, c).listeners = listeners
                /\ Cleanup(listeners, streams, c).streams = streams
          /\ streams[c].state = "open" /\ streams'[c].state = "closed" =>
                \A d \in Conns \ {c} :
                    /\ streams'[d] = streams[d]
                    /\ Registered(listeners', d) = Registered(listeners, d)]_vars

\* the first of two rescue streams without filters has closed; the second,
\* still registered and with its timer, has been written an event since
C25_Witness ==
    /\ streams[1].state = "closed" /\ streams[1].channel = "rescue"
    /\ streams[2].state = "open" /\ streams[2].channel = "rescue"
    /\ streams[1].filters = NoFilters /\ streams[2].filters = NoFilters
    /\ streams[2].timer /\ Registered(listeners, 2)
    /\ Len(streams[2].written) > Len(streams[1].written)

\* ------------------------------------------------------------------------ C26
\* the query fails validation: the schema refuses it, or from or to is given
\* and is not a date
InvalidQuery(query) ==
    \/ ~rescueQuerySchema(query).success
    \/ Truthy(query.from) /\ getTime(query.from) = NaN
    \/ Truthy(query.to) /\ getTime(query.to) = NaN

TimesWritten(c, n) ==
    Cardinality({i \in 1..Len(NewlyWritten(c)) : NewlyWritten(c)[i] = n})

\* C27: a registered notification stream of user U is written a notification
\* exactly when the row's userId is U: a step writes to it every row it has
\* created for U, once, and no row of another user; what it is written does
\* not depend on the rows created for other users.  A stream that is not
\* registered is written nothing.
C27_RecipientOnly ==
    [][\A c \in Conns :
          streams'[c].channel = "notification" =>
             IF streams[c].state = "open"
             THEN /\ SubSeq(streams'[c].written, 1, Len(streams[c].written))
                        = streams[c].written
                  /\ \A i \in 1..Len(NewlyWritten(c)) :
                        NewlyWritten(c)[i].userId = streams[c].userId
                  /\ \A n \in BagToSet(CreatedRows) :
                        n.userId = streams[c].userId =>
                           TimesWritten(c, n) = CopiesIn(n, CreatedRows)
             ELSE streams'[c].written = streams[c].written]_vars

\* the stream of user 3 has been written the rescue_assigned row of user 3
\* and not the one created for user 2 in the same batch
C27_Witness ==
    \E c \in Conns :
        /\ streams[c].channel = "notification"
        /\ streams[c].userId = 3
        /\ streams[c].written = << Notification(3, "rescue_assigned", 1) >>
        /\ BagIn(Notification(2, "rescue_assigned", 1), notifications)
        /\ emitted.notification = 2

\* ------------------------------------------------------------------------ C28
\* C28: for every record and all filters that buildRescueWhere accepts,
\* matchesStreamFilters(record, filters) is true exactly when the record
\* satisfies the where-clause buildRescueWhere(filters) returns, also when
\* columns of the record are null.
C28_MatchesIffWhere ==
    evaluation.pc = "matched" /\ evaluation.built.error = "" =>
       evaluation.matches = SatisfiesWhere(evaluation.record, evaluation.built.where)

\* a record whose vehicleType is null fails the filters that ask for a
\* vehicle type and nothing else
C28_Witness ==
    /\ evaluation.pc = "matched"
    /\ evaluation.built.error = ""
    /\ evaluation.filters = [NoFilters EXCEPT !.vehicleType = "suv"]
    /\ evaluation.record.vehicleType = "null"
    /\ ~evaluation.matches

\* ------------------------------------------------------------------------ C29
\* g is f with minLat and maxLat and/or minLng and maxLng exchanged, or f
Exchanged(f, g) ==
    /\ \/ g.minLat = f.minLat /\ g.maxLat = f.maxLat
       \/ g.minLat = f.maxLat /\ g.maxLat = f.minLat
    /\ \/ g.minLng = f.minLng /\ g.maxLng = f.maxLng
       \/ g.minLng = f.maxLng /\ g.maxLng = f.minLng
    /\ [g EXCEPT !.minLat = 0, !.maxLat = 0, !.minLng = 0, !.maxLng = 0]
          = [f EXCEPT !.minLat = 0, !.maxLat = 0, !.minLng = 0, !.maxLng = 0]

\* C29: filters that differ only in the order of minLat and maxLat and/or of
\* minLng and maxLng give the same where-clause and the same result of
\* matchesStreamFilters for every record, and with the four bounds given the
\* where-clause has the smaller value as gte and the larger as lte.
C29_BboxOrderIndependent ==
    LET f == evaluation.filters
        where == evaluation.built.where IN
    /\ evaluation.pc = "matched" /\ Exchanged(f, evaluation.swapped) =>
          /\ evaluation.builtSwapped = evaluation.built
          /\ evaluation.matchesSwapped = evaluation.matches
    /\ (/\ evaluation.pc = "matched"
        /\ evaluation.built.error = ""
        /\ f.minLat # NULL /\ f.maxLat # NULL
        /\ f.minLng # NULL /\ f.maxLng # NULL) =>
          /\ where.latitude.gte <= where.latitude.lte
          /\ {where.latitude.gte, where.latitude.lte} = {f.minLat, f.maxLat}
          /\ where.longitude.gte <= where.longitude.lte
          /\ {where.longitude.gte, where.longitude.lte} = {f.minLng, f.maxLng}

\* a box given with both pairs of bounds in reverse order, its exchanged form
\* in order, and a record inside that both match
C29_Witness ==
    /\ evaluation.pc = "matched"
    /\ evaluation.filters.minLat = 3 /\ evaluation.filters.maxLat = 1
    /\ evaluation.filters.minLng = 3 /\ evaluation.filters.maxLng = 1
    /\ evaluation.swapped.minLat = 1 /\ evaluation.swapped.maxLat = 3
    /\ evaluation.swapped.minLng = 1 /\ evaluation.swapped.maxLng = 3
    /\ evaluation.record.latitude = 2 /\ evaluation.record.longitude = 2
    /\ evaluation.matches /\ evaluation.matchesSwapped
    /\ evaluation.built.where.latitude = Range(1, 3)

\* ------------------------------------------------------------------------ C30
\* the texts that are dates
ParseableDates == {"2025-01-01", "2025-01-02", "2025-01-03"}

\* the filters without the bounds that are not dates
ParsedBounds(filters) ==
    [filters EXCEPT !.from = IF @ \in ParseableDates THEN @ ELSE Undefined,
                    !.to = IF @ \in ParseableDates THEN @ ELSE Undefined]

\* matchesStreamFilters has compared createdAt with the bounds that are dates
\* and with no other
ComparesParsedBoundsOnly ==
    evaluation.matches =
        SatisfiesWhere(evaluation.record,
                       buildRescueWhere(ParsedBounds(evaluation.filters)).where)

\* C30 as stated: buildRescueWhere throws for every from or to that is given
\* and is not a date, naming from when from is one and to otherwise, and
\* matchesStreamFilters compares createdAt only with the bounds that are
\* dates.
C30_UnparseableBoundRaises ==
    LET unparseable(text) == text # Undefined /\ text \notin ParseableDates IN
    evaluation.pc = "matched" =>
       /\ evaluation.built.error =
             IF unparseable(evaluation.filters.from) THEN "Fecha 'from' invalida"
             ELSE IF unparseable(evaluation.filters.to) THEN "Fecha 'to' invalida"
             ELSE ""
       /\ ComparesParsedBoundsOnly

\* C30, amended: buildRescueWhere throws for every from or to that is given,
\* not empty and not a date, naming from when from is one and to otherwise;
\* it takes an empty from or to as absent and does not throw for it; and
\* matchesStreamFilters compares createdAt only with the bounds that are
\* dates.
C30_NonEmptyUnparseableBoundRaises ==
    LET unparseable(text) == text \notin {Undefined, ""} \cup ParseableDates IN
    evaluation.pc = "matched" =>
       /\ evaluation.built.error =
             IF unparseable(evaluation.filters.from) THEN "Fecha 'from' invalida"
             ELSE IF unparseable(evaluation.filters.to) THEN "Fecha 'to' invalida"
             ELSE ""
       /\ ComparesParsedBoundsOnly

\* from and to are both not dates: buildRescueWhere names from, and
\* matchesStreamFilters lets the record pass
C30_Witness ==
    /\ evaluation.pc = "matched"
    /\ evaluation.filters.from = "invalid-date"
    /\ evaluation.filters.to = "invalid-date"
    /\ evaluation.built.error = "Fecha 'from' invalida"
    /\ evaluation.matches

\* ------------------------------------------------------------------------ C31
\* the read flag of row i is changed by the step
FlagChanges(i) == inbox'.rows[i].read # inbox.rows[i].read

\* C31: a step of markRead or markAllRead keeps the rows and their
\* recipients, never clears a read flag, and sets a read flag only on a row
\* whose recipient is the request's user (and, for markRead, whose id is the
\* one asked for): the rows of every other user are left as they were.
C31_ReadOnlyOwnNotifications ==
    [][/\ DOMAIN inbox'.rows = DOMAIN inbox.rows
       /\ \A i \in DOMAIN inbox.rows :
             /\ inbox'.rows[i].userId = inbox.rows[i].userId
             /\ inbox.rows[i].read => inbox'.rows[i].read
             /\ FlagChanges(i) =>
                   /\ inbox'.code = 200
                   /\ inbox.rows[i].userId = inbox'.caller
                   /\ inbox'.op = "markRead" => i = inbox'.id]_vars

\* markAllRead of user 1 has set the flag of two rows, and a row of user 2
\* is unread
C31_Witness ==
    /\ inbox.op = "markAllRead"
    /\ inbox.caller = 1
    /\ inbox.updated = 2
    /\ \E i \in DOMAIN inbox.rows : inbox.rows[i].userId = 2 /\ ~inbox.rows[i].read

\* ------------------------------------------------------------------------ C32
\* C32: a step that creates a candidate row creates it for a rescue that is
\* pending and has no assignment in the store of that step, whatever other
\* request has committed since the proposal read the rescue.
C32_NoCandidateOnClosedRescue ==
    [][Len(candidates') > Len(candidates) =>
          LET rescue == rescues[candidates'[Len(candidates')].rescueId] IN
          rescue.status = "pending" /\ ~HasAssignment(rescue)]_vars

\* the same for the race alone: the row is created for a rescue that has no
\* assignment in the store of that step
C32_NoCandidateOnAssignedRescue ==
    [][Len(candidates') > Len(candidates) =>
          ~HasAssignment(rescues[candidates'[Len(candidates')].rescueId])]_vars

\* ------------------------------------------------------------------------ C33
\* C33: a step changes the status of a candidate only when, in the store of
\* that step, the candidate's rescue is not resolved and has no assignment.
C33_StatusChangesWhileOpen ==
    [][\A c \in DOMAIN candidates :
          candidates'[c].status # candidates[c].status =>
             ~Closed(rescues[candidates[c].rescueId])]_vars

\* ------------------------------------------------------------------------ C34
\* the request in slot p makes its store write in the step: createRescue's
\* only step, or the update of the three others
WriteStep(p) ==
    \/ started' # started /\ Stepper(p) /\ req'[p].op = "createRescue"
    \/ req[p].pc \in {"U_update", "A_transaction", "L_update"} /\ Steps(p)

\* the request in slot p answers with a success code in the step
Succeeds(p) == req'[p].pc = "done" /\ req'[p].code \in {200, 201} /\ Stepper(p)

\* C34: a rescue event is published only by the step that commits the write
\* of createRescue, updateRescue, assignCandidate or updateResponderLocation,
\* after the write, with the row as it is stored by that step: the step
\* publishes exactly one event, which every registered stream without
\* filters is written; a write step that fails publishes none and changes
\* nothing; no other step (a validation or authorization failure, a read, a
\* notification) publishes one; and a request of the four answers with
\* success only after its write step has published.
C34_PublishAfterCommit ==
    [][\A p \in Procs :
          /\ WriteStep(p) =>
                IF req'[p].pc = "done" /\ req'[p].code = 500
                THEN /\ emitted'.rescue = 0
                     /\ UNCHANGED <<rescues, candidates, streams>>
                ELSE /\ emitted'.rescue = 1
                     /\ \A c \in Conns :
                           streams[c].state = "open" =>
                              streams'[c].written =
                                 Append(streams[c].written, PublishedRescue)
          /\ Stepper(p) /\ ~WriteStep(p) => emitted'.rescue = 0
          /\ Succeeds(p) =>
                \/ WriteStep(p) /\ emitted'.rescue = 1
                \/ req[p].pc \in {"U_notify", "A_notify"}
          /\ req'[p].pc \in {"U_notify", "A_notify"} /\ req[p].pc # req'[p].pc =>
                WriteStep(p) /\ emitted'.rescue = 1]_vars

\* a stream has been written the create of a rescue, then an update, then an
\* assignment, and the last event is the row as it is stored
C34_Witness ==
    \E c \in Conns :
        /\ streams[c].state = "open"
        /\ Len(streams[c].written) = 3
        /\ streams[c].written[1].type = "create"
        /\ streams[c].written[2].type = "update"
        /\ streams[c].written[3].rescue.assignedRescuerId # NULL
        /\ \E id \in DOMAIN rescues :
              streams[c].written[3].rescue = RescueStreamRecord(id, rescues[id])

\* ------------------------------------------------------------------------ C35
\* the rescue_message notifications of rescue r that the step creates for u
NewMessageNotifications(u, r) ==
    CopiesIn(Notification(u, "rescue_message", r), notifications')
       - CopiesIn(Notification(u, "rescue_message", r), notifications)

\* C35: a postMessage that answers 201 has created exactly one
\* rescue_message notification for every user among the rescue's owner, its
\* assigned responder and the members and owner of its assigned team, the
\* author excepted, and none for the author or for anyone else; the steps of
\* postMessage before the fan-out create no notification, and the request
\* skips the fan-out only when there is no one to notify.
C35_MessageRecipients ==
    [][\A p \in Procs :
          req[p].op = "postMessage" /\ Steps(p) =>
             LET r == req[p].rescueId
                 author == req[p].caller
                 expected == MayChatOrShare(rescues[r]) \ {author} IN
             IF req[p].pc = "M_notify"
             THEN /\ req'[p].code = 201
                  /\ \A u \in Callers :
                        NewMessageNotifications(u, r) = IF u \in expected THEN 1 ELSE 0
                  /\ BagCardinality(notifications')
                        = BagCardinality(notifications) + Cardinality(expected)
             ELSE /\ notifications' = notifications
                  /\ req[p].pc = "M_create" /\ req'[p].pc = "done" /\ req'[p].code = 201
                        => expected = {}]_vars

\* user 3, a member of the assigned team 1, has posted a message: the owner
\* (user 1) and the team's owner and member (user 2) have one notification
\* each, user 3 has none
C35_Witness ==
    /\ \E p \in Procs : req[p].op = "postMessage" /\ req[p].pc = "done" /\ req[p].code = 201
    /\ BagCardinality(messages) = 1
    /\ \E m \in BagToSet(messages) : m.authorId = 3 /\ rescues[m.rescueId].assignedTeamId = 1
    /\ CopiesIn(Notification(1, "rescue_message", 1), notifications) = 1
    /\ CopiesIn(Notification(2, "rescue_message", 1), notifications) = 1
    /\ CopiesIn(Notification(3, "rescue_message", 1), notifications) = 0

\* ------------------------------------------------------------------------ C36
\* a request whose write has committed has answered or goes on to notify
Proceeds(p) ==
    \/ req'[p].pc = "done" /\ req'[p].code \in {200, 201}
    \/ req'[p].pc \in {"U_notify", "A_notify"}

\* C36: whatever subscribers are registered, gone ones included, the step
\* that commits the write of createRescue, updateRescue, assignCandidate or
\* updateResponderLocation publishes the event, writes it to every
\* registered stream that is not gone, and lets the request go on; and a
\* request that has committed its write eventually answers.
C36_SubscriberDoesNotStall ==
    /\ [][\A p \in Procs :
             WriteStep(p) =>
                /\ emitted'.rescue = 1
                /\ Proceeds(p)
                /\ \A c \in Conns :
                      streams[c].state = "open" =>
                         streams'[c].written =
                            IF streams[c].fault = "gone" THEN streams[c].written
                            ELSE Append(streams[c].written, PublishedRescue)]_vars
    /\ \A p \in Procs :
          (req[p].pc \in {"U_notify", "A_notify"}) ~> (req[p].pc = "done")

\* the stream registered first is gone, the second has been written the two
\* events published since, and the last request has answered 200
C36_Witness ==
    /\ listeners.rescue = << 1, 2 >>
    /\ streams[1].fault = "gone" /\ streams[1].written = << >>
    /\ streams[2].fault = "none" /\ Len(streams[2].written) = 2
    /\ req[1].pc = "done" /\ req[1].code = 200

\* ------------------------------------------------------------------------ C37
\* C37: in every store state a rescue that has an assignment has an accepted
\* candidate of the assigned user or team, also when a rejectCandidate and an
\* assignCandidate on the rescue interleave.
C37_AssignedHasAcceptedCandidate ==
    \A r \in DOMAIN rescues :
        HasAssignment(rescues[r]) =>
           \E c \in CandidatesOf(r) :
              /\ candidates[c].status = "accepted"
              /\ candidates[c].userId = rescues[r].assignedRescuerId
              /\ candidates[c].teamId = rescues[r].assignedTeamId

\* ------------------------------------------------------------------------ C38
\* C38: in every store state a rescue that has an assignment has status
\* accepted or resolved.
C38_AssignedNotPending ==
    \A r \in DOMAIN rescues :
        HasAssignment(rescues[r]) => rescues[r].status \in {"accepted", "resolved"}

\* ------------------------------------------------------------------------ C39
\* C39: no step makes a rejected candidate accepted.
C39_RejectedStaysRejected ==
    [][\A c \in DOMAIN candidates :
          candidates[c].status = "rejected" => candidates'[c].status # "accepted"]_vars

\* ------------------------------------------------------------------------ C40
\* the assignment fields of rescue r are as they were before the step
KeepsAssignment(r) ==
    /\ rescues'[r].assignedRescuerId = rescues[r].assignedRescuerId
    /\ rescues'[r].assignedTeamId = rescues[r].assignedTeamId

\* C40: a step of updateRescue, updateResponderLocation, proposeCandidate,
\* rejectCandidate or postMessage leaves the assignment fields of every
\* rescue as they were, and a step of updateRescue or
\* updateResponderLocation leaves every candidate as it was; the only step
\* that changes an assignment field is the commit of assignCandidate; and a
\* rescue that has an assignment has one after every step.
C40_AssignmentFrame ==
    [][\A p \in Procs :
          Stepper(p) =>
             /\ req'[p].op \in {"updateRescue", "updateResponderLocation",
                                "proposeCandidate", "rejectCandidate", "postMessage"}
                   => \A r \in DOMAIN rescues : KeepsAssignment(r)
             /\ req'[p].op \in {"updateRescue", "updateResponderLocation"}
                   => candidates' = candidates
             /\ (\E r \in DOMAIN rescues : ~KeepsAssignment(r)) => Commits(p)
             /\ \A r \in DOMAIN rescues :
                   HasAssignment(rescues[r]) => HasAssignment(rescues'[r])]_vars

\* the owner has resolved rescue 1 after it was assigned: the rescue is
\* still assigned and its winning candidate is still accepted
C40_Witness ==
    /\ \E p \in Procs :
          req[p].op = "updateRescue" /\ req[p].pc = "done" /\ req[p].code = 200
    /\ rescues[1].status = "resolved"
    /\ HasAssignment(rescues[1])
    /\ \E c \in CandidatesOf(1) : candidates[c].status = "accepted"
====
